---- MODULE Spec2Model ----
(***************************************************************************)
(* Inputlog Lite: the event-log engine.                                    *)
(*                                                                         *)
(*   - the recorder hook (useWritingRecorder) and the editor's Diff        *)
(*     Capture (WritingEditor.handleChange),                               *)
(*   - the replay player (ReplayPlayer.reconstructTextAtTime and its       *)
(*     playback clock),                                                    *)
(*   - the segmentation pipeline (AnalysisDashboard.calculateMetrics).     *)
(*                                                                         *)
(* Text is a sequence of one-character strings; positions are the 0-based  *)
(* offsets the source uses.  Times are milliseconds.  The uuid of an event *)
(* and the student name are not modelled: no operation reads them.         *)
(*                                                                         *)
(* React closures: a handler reads the `status` and `text` of the render   *)
(* it was created in, so a setStatus/setText made earlier in the same      *)
(* handler is not visible to a logEvent call made later in that handler.   *)
(***************************************************************************)
EXTENDS Integers, Sequences, FiniteSets, TLC

VARIABLES
  \* ---- recorder hook (useWritingRecorder) and its environment ----
  status,            \* SessionStatus state of the hook
  text,              \* text state of the hook
  events,            \* eventsRef.current
  startTime,         \* startTimeRef.current
  lastEventTime,     \* lastEventTimeRef.current
  storage,           \* localStorage[AUTOSAVE_KEY], NoSave when absent
  now,               \* Date.now()
  completedSession,  \* App's completedSession, NoSession when null
  \* ---- history variables of the recorder ----
  resumedAt,         \* time of a resumeSession not yet followed by an event, else -1
  restored,          \* the hook instance was filled by restoreSession
  steps,             \* the snapshots fed to Diff Capture and the log length after each
  returnedSessions,  \* history: the sessions stopSession has returned, each with
                     \* whether its events is still the array of eventsRef.current
  autosaveTimer,     \* the hook's setInterval: NoInterval, the time it was armed or
                     \* last fired, or NotTimed
  \* ---- replay player (ReplayPlayer) ----
  playerEvents,      \* session.events given to the player
  duration,          \* session.totalActiveTime
  isPlaying, currentTime, playbackSpeed, reconstructedText,
  frameRequested,    \* a requestAnimationFrame callback is pending
  prevTime,          \* history: currentTime before the last player operation
  lastOp,            \* history: the last player operation and its input
  \* ---- segmentation pipeline (calculateMetrics) ----
  segEvents,         \* session.events given to the pipeline
  segIdx,            \* number of events the forEach loop has consumed
  segDone,           \* the final flushes have run
  currentText, deletionBuffer, insertionBuffer, replacementBuffer,
  lastDeletionGroup, \* index into deletionGroups of the referenced group, 0 for null
  isTrackingReplacement,
  pauses, deletionGroups, insertionGroups,
  previousRun,       \* history: what the previous run on this session returned
  \* ---- App, DashboardErrorBoundary and the dashboard's analysis effect ----
  currentView,       \* App's currentView
  appMounted,        \* the React root is rendered (no uncaught render error)
  hasError,          \* DashboardErrorBoundary's state.hasError
  calculating,       \* AnalysisDashboard's calculating
  timerPending,      \* the effect's setTimeout has not fired or been cleared
  processData,       \* AnalysisDashboard's processData, NoRun when empty
  stats,             \* AnalysisDashboard's stats memo, NoRun without a dashboard
  timeData,          \* its timeData memo, NoRun where the series is not followed
  exported,          \* history: the session last written to a download
  appOp              \* history: the last operation of the shell and its input

recVars    == <<status, text, events, startTime, lastEventTime, storage, now,
                completedSession, resumedAt, restored, steps,
                returnedSessions, autosaveTimer>>
playerVars == <<playerEvents, duration, isPlaying, currentTime, playbackSpeed,
                reconstructedText, frameRequested, prevTime, lastOp>>
segVars    == <<segEvents, segIdx, segDone, currentText, deletionBuffer,
                insertionBuffer, replacementBuffer, lastDeletionGroup,
                isTrackingReplacement, pauses, deletionGroups, insertionGroups,
                previousRun>>
appVars    == <<currentView, appMounted, hasError, calculating, timerPending,
                processData, stats, timeData, exported, appOp>>
vars       == <<recVars, playerVars, segVars, appVars>>

(***************************************************************************)
(* Bounds                                                                  *)
(***************************************************************************)
MaxLen     == 1      \* longest text typed in the recorder
MaxEvents  == 2      \* longest log built by the recorder
DiffLen    == 3      \* longest text given to Diff Capture alone
RTLen      == 2      \* longest snapshot of a round trip
RTEvents   == 3      \* longest log of a round trip
PlayerLogLen   == 2  \* longest log given to the replay player
PlayerDuration == 3  \* totalActiveTime of the session given to the player
ClockDuration  == 6  \* totalActiveTime of the sessions of the clock's specification
MaxDelta       == 2  \* longest time between two animation frames
SegEpoch       == 1000000 \* Date.now() at the start of an analysed session
MaxElapsed == 1      \* the recorder's clock runs from Epoch to Epoch + MaxElapsed
Epoch      == 100000 \* Date.now() when the page is opened
Alphabet   == {"a", "b"}

Min(a, b) == IF a < b THEN a ELSE b
Max(a, b) == IF a > b THEN a ELSE b

\* every text of length at most n over Alphabet
TextsUpTo(n) == UNION {[1..k -> Alphabet] : k \in 0..n}

(***************************************************************************)
(* JavaScript String.prototype.slice                                       *)
(***************************************************************************)
JSIndex(i, len) == IF i < 0 THEN Max(len + i, 0) ELSE Min(i, len)

Slice(s, a, b) ==
  LET from == JSIndex(a, Len(s))
      to   == JSIndex(b, Len(s))
  IN  IF to <= from THEN <<>> ELSE SubSeq(s, from + 1, to)

SliceFrom(s, a) == Slice(s, a, Len(s))

(***************************************************************************)
(* SessionStatus and the absent values                                     *)
(***************************************************************************)
IDLE      == "IDLE"
RECORDING == "RECORDING"
PAUSED    == "PAUSED"
FINISHED  == "FINISHED"

\* values of autosaveTimer besides a time: no interval is armed; and the
\* specification does not follow the interval (it may fire at any moment)
NoInterval == -1
NotTimed   == -2

NoSave    == [absent |-> TRUE]
NoSession == [absent |-> TRUE]
NoRun     == [absent |-> TRUE]

StaleAfter == 48 * 60 * 60 * 1000

TextTypes == {"insert", "delete", "paste"}

(***************************************************************************)
(* Diff Capture: WritingEditor.handleChange, the two trimming loops        *)
(***************************************************************************)
RECURSIVE PrefixLoop(_, _, _)
PrefixLoop(oldText, newText, start) ==
  IF start < Len(oldText) /\ start < Len(newText)
     /\ oldText[start + 1] = newText[start + 1]
  THEN PrefixLoop(oldText, newText, start + 1)
  ELSE start

RECURSIVE SuffixLoopNoGuard(_, _, _, _, _)
SuffixLoopNoGuard(oldText, newText, start, endOld, endNew) ==
  IF endOld >= 0 /\ endNew >= 0
     /\ oldText[endOld + 1] = newText[endNew + 1]
  THEN SuffixLoopNoGuard(oldText, newText, start, endOld - 1, endNew - 1)
  ELSE <<endOld, endNew>>

RECURSIVE SuffixLoop(_, _, _, _, _)
SuffixLoop(oldText, newText, start, endOld, endNew) ==
  IF endOld >= start /\ endNew >= start
     /\ oldText[endOld + 1] = newText[endNew + 1]
  THEN SuffixLoop(oldText, newText, start, endOld - 1, endNew - 1)
  ELSE <<endOld, endNew>>

\* the partial events handleChange passes to logEvent, in call order
DiffEventsInsertFirst(oldText, newText) ==
  LET start        == PrefixLoop(oldText, newText, 0)
      ends         == SuffixLoop(oldText, newText, start,
                                 Len(oldText) - 1, Len(newText) - 1)
      deletedText  == Slice(oldText, start, ends[1] + 1)
      insertedText == Slice(newText, start, ends[2] + 1)
  IN  (IF Len(insertedText) > 0
         THEN << [type |-> IF Len(insertedText) > 1 THEN "paste" ELSE "insert",
                  position |-> start, content |-> insertedText,
                  actionDetails |-> IF Len(insertedText) > 1
                                      THEN "Paste/Replace" ELSE "Type"] >>
         ELSE << >>)
      \o
      (IF Len(deletedText) > 0
         THEN << [type |-> "delete", position |-> start,
                  content |-> deletedText,
                  actionDetails |-> "Delete/Backspace"] >>
         ELSE << >>)

DiffEvents(oldText, newText) ==
  LET start        == PrefixLoop(oldText, newText, 0)
      ends         == SuffixLoop(oldText, newText, start,
                                 Len(oldText) - 1, Len(newText) - 1)
      deletedText  == Slice(oldText, start, ends[1] + 1)
      insertedText == Slice(newText, start, ends[2] + 1)
  IN  (IF Len(deletedText) > 0
         THEN << [type |-> "delete", position |-> start,
                  content |-> deletedText,
                  actionDetails |-> "Delete/Backspace"] >>
         ELSE << >>)
      \o
      (IF Len(insertedText) > 0
         THEN << [type |-> IF Len(insertedText) > 1 THEN "paste" ELSE "insert",
                  position |-> start, content |-> insertedText,
                  actionDetails |-> IF Len(insertedText) > 1
                                      THEN "Paste/Replace" ELSE "Type"] >>
         ELSE << >>)

(***************************************************************************)
(* Replay: ReplayPlayer.relevantEvents and reconstructTextAtTime           *)
(***************************************************************************)
relevantEvents(evs) == SelectSeq(evs, LAMBDA e : e.type \in TextTypes)

\* one iteration of the loop body: the splice of an insert/paste, the
\* removal of a delete; `content ? content.length : 1` is 1 for "" as well
ApplyTextEvent(buf, e) ==
  IF e.type \in {"insert", "paste"}
    THEN Slice(buf, 0, e.position) \o e.content \o SliceFrom(buf, e.position)
  ELSE IF e.type = "delete"
    THEN LET deleteLen == IF Len(e.content) > 0 THEN Len(e.content) ELSE 1
         IN  Slice(buf, 0, e.position) \o SliceFrom(buf, e.position + deleteLen)
  ELSE buf

RECURSIVE ReplayLoopStrict(_, _, _, _)
ReplayLoopStrict(rel, i, targetTime, buf) ==
  IF i > Len(rel) THEN buf
  ELSE IF rel[i].relativeTime >= targetTime THEN buf
  ELSE ReplayLoopStrict(rel, i + 1, targetTime, ApplyTextEvent(buf, rel[i]))

RECURSIVE ReplayLoop(_, _, _, _)
ReplayLoop(rel, i, targetTime, buf) ==
  IF i > Len(rel) THEN buf
  ELSE IF rel[i].relativeTime > targetTime THEN buf      \* break
  ELSE ReplayLoop(rel, i + 1, targetTime, ApplyTextEvent(buf, rel[i]))

reconstructTextAtTime(evs, targetTime) ==
  ReplayLoop(relevantEvents(evs), 1, targetTime, <<>>)

(***************************************************************************)
(* The recorder hook: useWritingRecorder                                   *)
(***************************************************************************)
\* logEvent as seen from a handler whose render had status `st`; the refs
\* (events, startTime, lastEventTime) are read at the time of the call.
\* The field `resumed` of an event is history, not program data: the time
\* of the resumeSession that ran since the previous event, or -1.
logEventKeepsLast(st, evs, start, last, rsm, partialEvent, t) ==
  IF st # RECORDING /\ st # PAUSED
    THEN [events |-> evs, lastEventTime |-> last, resumedAt |-> rsm]
  ELSE IF st = PAUSED /\ partialEvent.type # "focus"
          /\ partialEvent.type # "blur"
          /\ partialEvent.actionDetails # "Session Restored"
    THEN [events |-> evs, lastEventTime |-> last, resumedAt |-> rsm]
  ELSE [events |-> Append(evs, [timestamp    |-> t,
                                relativeTime |-> t - start,
                                pauseBefore  |-> t - last,
                                resumed      |-> rsm] @@ partialEvent),
        lastEventTime |-> last,
        resumedAt |-> -1]

logEvent(st, evs, start, last, rsm, partialEvent, t) ==
  IF st # RECORDING /\ st # PAUSED
    THEN [events |-> evs, lastEventTime |-> last, resumedAt |-> rsm]
  ELSE IF st = PAUSED /\ partialEvent.type # "focus"
          /\ partialEvent.type # "blur"
          /\ partialEvent.actionDetails # "Session Restored"
    THEN [events |-> evs, lastEventTime |-> last, resumedAt |-> rsm]
  ELSE [events |-> Append(evs, [timestamp    |-> t,
                                relativeTime |-> t - start,
                                pauseBefore  |-> t - last,
                                resumed      |-> rsm] @@ partialEvent),
        lastEventTime |-> t,
        resumedAt |-> -1]

\* saveToStorage of a render with status `st` and text `txt`
saveToStorage(st, txt, sto) ==
  IF st = RECORDING \/ st = PAUSED
    THEN [text |-> txt, status |-> st, startTime |-> startTime,
          events |-> events, lastEventTime |-> lastEventTime,
          timestamp |-> now]
    ELSE sto

\* what localStorage may hold besides a snapshot written by saveToStorage:
\* text that JSON.parse rejects, and the JSON text "null"
Unparsable == [unparsable |-> TRUE]
StoredNull == [null |-> TRUE]

checkSavedSessionInclusive ==
  IF storage = NoSave THEN NoSave
  ELSE IF storage = Unparsable \/ storage = StoredNull THEN NoSave
  ELSE IF "timestamp" \notin DOMAIN storage THEN NoSave
  ELSE IF now - storage.timestamp <= StaleAfter THEN storage ELSE NoSave

\* getItem gives null for a missing key; JSON.parse throws on unparsable text
\* and parsed.timestamp throws on null, both caught; a snapshot without a
\* timestamp makes the difference NaN, and NaN < ... is false
checkSavedSession ==
  IF storage = NoSave THEN NoSave
  ELSE IF storage = Unparsable \/ storage = StoredNull THEN NoSave
  ELSE IF "timestamp" \notin DOMAIN storage THEN NoSave
  ELSE IF now - storage.timestamp < StaleAfter THEN storage ELSE NoSave

PlayerIdle ==
  /\ playerEvents = <<>> /\ duration = 0 /\ isPlaying = FALSE
  /\ currentTime = 0 /\ playbackSpeed = 1 /\ reconstructedText = <<>>
  /\ prevTime = 0 /\ frameRequested = FALSE /\ lastOp = [op |-> "off"]

SegIdle ==
  /\ segEvents = <<>> /\ segIdx = 0 /\ segDone = FALSE
  /\ currentText = <<>> /\ deletionBuffer = <<>> /\ insertionBuffer = <<>>
  /\ replacementBuffer = <<>> /\ lastDeletionGroup = 0
  /\ isTrackingReplacement = FALSE
  /\ pauses = <<>> /\ deletionGroups = <<>> /\ insertionGroups = <<>>
  /\ previousRun = NoRun

\* App's initial state: the editor is shown and no dashboard is mounted
NoExport == [absent |-> TRUE]

\* the stats memo while calculating
StatsCalculating == [words |-> 0, wpm |-> 0]

AppIdle ==
  /\ currentView = "write" /\ appMounted = TRUE /\ hasError = FALSE
  /\ calculating = TRUE /\ timerPending = FALSE /\ processData = NoRun
  /\ stats = NoRun /\ timeData = NoRun
  /\ exported = NoExport /\ appOp = [op |-> "none"]

\* AnalysisDashboard and its error boundary are mounted: useState(true) for
\* calculating, empty processData, and the effect arms its 100 ms timer
DashboardMount ==
  /\ hasError' = FALSE /\ calculating' = TRUE /\ timerPending' = TRUE
  /\ processData' = NoRun
  /\ stats' = StatsCalculating
  /\ UNCHANGED timeData

\* they are unmounted, were the effect to have no clean-up
DashboardUnmountKeepsTimer ==
  /\ hasError' = FALSE /\ calculating' = TRUE /\ timerPending' = timerPending
  /\ processData' = NoRun
  /\ stats' = NoRun
  /\ UNCHANGED timeData

\* they are unmounted: the effect's clean-up clears the timer
DashboardUnmount ==
  /\ hasError' = FALSE /\ calculating' = TRUE /\ timerPending' = FALSE
  /\ processData' = NoRun
  /\ stats' = NoRun
  /\ UNCHANGED timeData

\* App.handleSessionComplete
handleSessionComplete(session) ==
  /\ completedSession' = session
  /\ currentView' = "analyze"
  /\ DashboardMount

\* the hook's state after mounting: the useState/useRef initial values
HookFresh(st, txt, evs, start, last) ==
  /\ st = IDLE /\ txt = <<>> /\ evs = <<>> /\ start = 0 /\ last = 0

RecInit ==
  /\ HookFresh(status, text, events, startTime, lastEventTime)
  /\ storage = NoSave
  /\ now = Epoch
  /\ completedSession = NoSession
  /\ resumedAt = -1
  /\ restored = FALSE
  /\ steps = <<>>
  /\ returnedSessions = <<>>
  /\ autosaveTimer = NotTimed

Init == RecInit /\ PlayerIdle /\ SegIdle /\ AppIdle

\* Date.now() advances
Tick ==
  /\ now < Epoch + MaxElapsed
  /\ now' = now + 1
  /\ UNCHANGED <<status, text, events, startTime, lastEventTime, storage,
                 completedSession, resumedAt, restored, restored, steps,
                 returnedSessions, autosaveTimer>>
  /\ UNCHANGED <<playerVars, segVars, appVars>>

\* handleStart -> startSession; the Start button exists on the IDLE screen
startSession ==
  /\ status = IDLE
  /\ storage' = NoSave                               \* clearSavedSession
  /\ text' = <<>>
  /\ startTime' = now
  /\ status' = RECORDING
  /\ LET r == logEvent(status, <<>>, now, now, -1,
                       [type |-> "focus", position |-> 0, content |-> <<>>,
                        actionDetails |-> ""], now)
     IN  /\ events' = r.events
         /\ lastEventTime' = r.lastEventTime
         /\ resumedAt' = r.resumedAt
  /\ UNCHANGED <<now, completedSession, restored, steps,
                 returnedSessions, autosaveTimer>>
  /\ UNCHANGED <<playerVars, segVars, appVars>>

restoreStartTimeNow(saved) == now

restoreStartTime(saved) == saved.startTime

\* handleRestore -> restoreSession; the Restore button exists on the IDLE screen
restoreSaved(saved) ==
  /\ text' = saved.text
  /\ startTime' = restoreStartTime(saved)
  /\ status' = PAUSED
  /\ LET r == logEvent(status, saved.events, restoreStartTime(saved),
                       saved.lastEventTime, -1,
                       [type |-> "insert", position |-> 0,
                        content |-> <<>>,
                        actionDetails |-> "Session Restored"], now)
     IN  /\ Len(r.events) <= MaxEvents
         /\ events' = r.events
         /\ lastEventTime' = r.lastEventTime
         /\ resumedAt' = r.resumedAt
  /\ restored' = TRUE

restoreSession ==
  /\ status = IDLE
  /\ checkSavedSession # NoSave
  /\ restoreSaved(checkSavedSession)
  /\ UNCHANGED <<storage, now, completedSession, steps,
                 returnedSessions, autosaveTimer>>
  /\ UNCHANGED <<playerVars, segVars, appVars>>

\* the program variables after handleChange(newText); the clock may advance
\* by d between the two logEvent calls
handleChangeCore(newText, d, maxEvents) ==
  IF status # RECORDING
    THEN /\ d = 0
         /\ text' = newText
         /\ UNCHANGED <<events, lastEventTime, resumedAt, now>>
    ELSE LET partials == DiffEvents(text, newText)
             r1 == IF Len(partials) >= 1
                     THEN logEvent(status, events, startTime, lastEventTime,
                                   resumedAt, partials[1], now)
                     ELSE [events |-> events, lastEventTime |-> lastEventTime,
                           resumedAt |-> resumedAt]
             r2 == IF Len(partials) >= 2
                     THEN logEvent(status, r1.events, startTime,
                                   r1.lastEventTime, r1.resumedAt,
                                   partials[2], now + d)
                     ELSE r1
         IN  /\ Len(events) + Len(partials) <= maxEvents
             /\ (d > 0 => Len(partials) = 2 /\ now + d <= Epoch + MaxElapsed)
             /\ events' = r2.events
             /\ lastEventTime' = r2.lastEventTime
             /\ resumedAt' = r2.resumedAt
             /\ now' = now + d
             /\ text' = newText

\* the textarea's onChange; the textarea exists while the hook is not IDLE
handleChange ==
  /\ status \in {RECORDING, PAUSED}
  /\ \E newText \in TextsUpTo(MaxLen), d \in 0..1 :
        handleChangeCore(newText, d, MaxEvents)
  /\ UNCHANGED <<status, startTime, storage, completedSession, restored, steps,
                 returnedSessions, autosaveTimer>>
  /\ UNCHANGED <<playerVars, segVars, appVars>>

\* the textarea's onKeyDown with an arrow key
handleKeyDown ==
  /\ status \in {RECORDING, PAUSED}
  /\ \E sel \in {0, Len(text)} :
       LET r == IF status # RECORDING
                  THEN [events |-> events, lastEventTime |-> lastEventTime,
                        resumedAt |-> resumedAt]
                  ELSE logEvent(status, events, startTime, lastEventTime,
                                resumedAt,
                                [type |-> "navigation", position |-> sel,
                                 content |-> <<>>,
                                 actionDetails |-> "ArrowLeft"], now)
       IN  /\ Len(r.events) <= MaxEvents
           /\ events' = r.events
           /\ lastEventTime' = r.lastEventTime
           /\ resumedAt' = r.resumedAt
  /\ UNCHANGED <<status, text, startTime, storage, now, completedSession, restored, steps,
                 returnedSessions, autosaveTimer>>
  /\ UNCHANGED <<playerVars, segVars, appVars>>

\* handleFocus / handleBlur (the textarea's onFocus, onBlur)
handleFocusBlur(kind) ==
  /\ status \in {RECORDING, PAUSED}
  /\ LET r == IF status = RECORDING
                THEN logEvent(status, events, startTime, lastEventTime,
                              resumedAt,
                              [type |-> kind, position |-> -1,
                               content |-> <<"Window">>,
                               actionDetails |-> ""], now)
                ELSE [events |-> events, lastEventTime |-> lastEventTime,
                      resumedAt |-> resumedAt]
     IN  /\ Len(r.events) <= MaxEvents
         /\ events' = r.events
         /\ lastEventTime' = r.lastEventTime
         /\ resumedAt' = r.resumedAt
  /\ UNCHANGED <<status, text, startTime, storage, now, completedSession, restored, steps,
                 returnedSessions, autosaveTimer>>
  /\ UNCHANGED <<playerVars, segVars, appVars>>

handleFocus == handleFocusBlur("focus")

handleBlur == handleFocusBlur("blur")

\* the Pause button
pauseSession ==
  /\ status = RECORDING
  /\ status' = PAUSED
  /\ storage' = saveToStorage(status, text, storage)
  /\ UNCHANGED <<text, events, startTime, lastEventTime, now,
                 completedSession, resumedAt, restored, restored, steps,
                 returnedSessions, autosaveTimer>>
  /\ UNCHANGED <<playerVars, segVars, appVars>>

resumeKeepsLast == lastEventTime

resumeLastEventTime == now

\* the Resume button
resumeSession ==
  /\ status = PAUSED
  /\ lastEventTime' = resumeLastEventTime
  /\ status' = RECORDING
  /\ resumedAt' = now
  /\ UNCHANGED <<text, events, startTime, storage, now, completedSession, restored, steps,
                 returnedSessions, autosaveTimer>>
  /\ UNCHANGED <<playerVars, segVars, appVars>>

\* the 2-second autosave interval, armed while RECORDING
autosave ==
  /\ status = RECORDING
  /\ storage' = saveToStorage(status, text, storage)
  /\ storage' # storage
  /\ UNCHANGED <<status, text, events, startTime, lastEventTime, now,
                 completedSession, resumedAt, restored, restored, steps,
                 returnedSessions, autosaveTimer>>
  /\ UNCHANGED <<playerVars, segVars, appVars>>

\* the WritingSession object stopSession builds
stopSessionResult(endTime) ==
  [startTime |-> startTime, endTime |-> endTime, events |-> events,
   finalText |-> text, totalActiveTime |-> endTime - startTime,
   totalPauseTime |-> 0]

\* stopSession left the status as it was
stopSessionKeepsStatus == status

\* the status stopSession sets
stopSessionStatus == FINISHED

\* the returned session's events is eventsRef.current itself, not a copy
Returned(session) == [session |-> session, aliased |-> TRUE]

\* handleFinish, were stopSession to clear the saved session after its save
handleFinishClearsSave ==
  /\ status \in {RECORDING, PAUSED}
  /\ status' = stopSessionStatus
  /\ storage' = NoSave
  /\ handleSessionComplete(stopSessionResult(now))
  /\ returnedSessions' = Append(returnedSessions, Returned(stopSessionResult(now)))
  /\ UNCHANGED autosaveTimer
  /\ UNCHANGED <<text, events, startTime, lastEventTime, now, resumedAt, restored, steps>>
  /\ UNCHANGED <<appMounted, exported, appOp>>
  /\ UNCHANGED <<playerVars, segVars>>

\* handleFinish: stopSession, then App.handleSessionComplete, which shows the
\* dashboard and so unmounts the editor
handleFinish ==
  /\ status \in {RECORDING, PAUSED}
  /\ status' = stopSessionStatus
  /\ storage' = saveToStorage(status, text, storage)
  /\ handleSessionComplete(stopSessionResult(now))
  /\ returnedSessions' = Append(returnedSessions, Returned(stopSessionResult(now)))
  /\ UNCHANGED autosaveTimer
  /\ UNCHANGED <<text, events, startTime, lastEventTime, now, resumedAt, restored, steps>>
  /\ UNCHANGED <<appMounted, exported, appOp>>
  /\ UNCHANGED <<playerVars, segVars>>

\* the page is loaded again: new App and hook instances; localStorage is kept
remount ==
  /\ status # IDLE
  /\ HookFresh(status', text', events', startTime', lastEventTime')
  /\ resumedAt' = -1
  /\ completedSession' = NoSession
  /\ restored' = FALSE
  /\ currentView' = "write" /\ appMounted' = TRUE /\ DashboardUnmount
  /\ appOp' = [op |-> "none"]
  /\ returnedSessions' = <<>>
  /\ UNCHANGED autosaveTimer
  /\ UNCHANGED <<storage, now, steps, exported>>
  /\ UNCHANGED <<playerVars, segVars>>

Next ==
  \/ Tick
  \/ startSession
  \/ restoreSession
  \/ handleChange
  \/ handleKeyDown
  \/ handleFocus
  \/ handleBlur
  \/ pauseSession
  \/ resumeSession
  \/ autosave
  \/ handleFinish
  \/ remount

Spec == Init /\ [][Next]_vars

(***************************************************************************)
(* Diff Capture alone: one edit of a recording editor that holds any text  *)
(***************************************************************************)
DiffInit ==
  /\ status = RECORDING
  /\ text \in TextsUpTo(DiffLen)
  /\ events = <<>>
  /\ startTime = Epoch /\ lastEventTime = Epoch /\ now = Epoch
  /\ storage = NoSave /\ completedSession = NoSession
  /\ resumedAt = -1 /\ restored = FALSE /\ steps = <<>>
  /\ returnedSessions = <<>>
  /\ autosaveTimer = NotTimed
  /\ PlayerIdle /\ SegIdle /\ AppIdle

DiffChange ==
  /\ \E newText \in TextsUpTo(DiffLen), d \in 0..1 :
        handleChangeCore(newText, d, 2)
  /\ UNCHANGED <<status, startTime, storage, completedSession, restored, steps,
                 returnedSessions, autosaveTimer>>
  /\ UNCHANGED <<playerVars, segVars, appVars>>

DiffNext == DiffChange \/ Tick

SpecDiff == DiffInit /\ [][DiffNext]_vars

(***************************************************************************)
(* Round trip: snapshots fed one by one to a recording editor              *)
(***************************************************************************)
RTChange ==
  /\ status = RECORDING
  /\ \E newText \in TextsUpTo(RTLen), d \in 0..1 :
        handleChangeCore(newText, d, RTEvents)
  /\ steps' = IF Len(events') > Len(events)
                THEN Append(steps, [text |-> text', last |-> Len(events')])
                ELSE steps
  /\ UNCHANGED <<returnedSessions, autosaveTimer>>
  /\ UNCHANGED <<status, startTime, storage, completedSession, restored>>
  /\ UNCHANGED <<playerVars, segVars, appVars>>

RTNext == startSession \/ RTChange \/ Tick

SpecRoundTrip == Init /\ [][RTNext]_vars

(***************************************************************************)
(* Properties of the recorder and of Diff Capture                          *)
(***************************************************************************)
StepReplays(k) ==
  reconstructTextAtTime(events, events[steps[k].last].relativeTime)
    = steps[k].text

\* C1 as stated: replaying the log at the relativeTime of the last event of
\* step i yields the snapshot si, for every step i.
C1RoundTripEveryStep ==
  \A k \in 1..Len(steps) : StepReplays(k)

\* C1 amended: replaying the log at the relativeTime of the last event of
\* step i yields si for every step i that no later event shares its
\* relativeTime with (the clock advanced before the next edit), and replaying
\* at the final event's time yields the current text sn.
C1RoundTrip ==
  /\ \A k \in 1..Len(steps) :
        (\/ steps[k].last = Len(events)
         \/ events[steps[k].last + 1].relativeTime
              > events[steps[k].last].relativeTime)
        => StepReplays(k)
  /\ Len(events) > 0 =>
        reconstructTextAtTime(events, events[Len(events)].relativeTime) = text

C1Witness ==
  /\ Len(steps) >= 2
  /\ steps[1].text # steps[2].text /\ steps[1].text # <<>>
  /\ events[steps[1].last + 1].relativeTime
       > events[steps[1].last].relativeTime
  /\ StepReplays(1)

\* C2: the session returned by stopSession replays to its finalText.
C2ReplayYieldsFinalText ==
  completedSession # NoSession =>
    reconstructTextAtTime(completedSession.events,
                          completedSession.totalActiveTime)
      = completedSession.finalText

\* the spec's two-sided trim, stated without the loops
AgreeOnPrefix(a, b, k) == SubSeq(a, 1, k) = SubSeq(b, 1, k)

AgreeOnSuffix(a, b, k) ==
  SubSeq(a, Len(a) - k + 1, Len(a)) = SubSeq(b, Len(b) - k + 1, Len(b))

LongestPrefix(a, b) ==
  CHOOSE k \in 0..Min(Len(a), Len(b)) :
    /\ AgreeOnPrefix(a, b, k)
    /\ \A j \in (k + 1)..Min(Len(a), Len(b)) : ~AgreeOnPrefix(a, b, j)

LongestSuffix(a, b) ==
  LET p == LongestPrefix(a, b)
  IN  CHOOSE k \in 0..(Min(Len(a), Len(b)) - p) :
        /\ AgreeOnSuffix(a, b, k)
        /\ \A j \in (k + 1)..(Min(Len(a), Len(b)) - p) : ~AgreeOnSuffix(a, b, j)

RemovedSpan(a, b) ==
  SubSeq(a, LongestPrefix(a, b) + 1, Len(a) - LongestSuffix(a, b))

InsertedSpan(a, b) ==
  SubSeq(b, LongestPrefix(a, b) + 1, Len(b) - LongestSuffix(a, b))

ExpectedDiff(a, b) ==
  (IF RemovedSpan(a, b) # <<>>
     THEN << [type |-> "delete", position |-> LongestPrefix(a, b),
              content |-> RemovedSpan(a, b)] >>
     ELSE << >>)
  \o
  (IF InsertedSpan(a, b) # <<>>
     THEN << [type |-> IF Len(InsertedSpan(a, b)) > 1 THEN "paste" ELSE "insert",
              position |-> LongestPrefix(a, b),
              content |-> InsertedSpan(a, b)] >>
     ELSE << >>)

\* what a step appended to the log, as (type, position, content)
Emitted ==
  [i \in 1..(Len(events') - Len(events)) |->
     [type     |-> events'[Len(events) + i].type,
      position |-> events'[Len(events) + i].position,
      content  |-> events'[Len(events) + i].content]]

\* C5: an edit old -> new emits a delete of old[p..len-s) at p iff that span
\* is non-empty, then an insert of new[p..len-s) at p iff that span is
\* non-empty, typed paste iff longer than 1; nothing when old = new, no
\* delete when new is old with text appended.
C5DiffCapture ==
  [][ /\ Len(events') >= Len(events)
      /\ Emitted = ExpectedDiff(text, text')
      /\ (text' = text => Len(events') = Len(events))
      /\ (Len(text') >= Len(text) /\ SubSeq(text', 1, Len(text)) = text
            => \A i \in 1..Len(Emitted) : Emitted[i].type # "delete") ]_vars

C5Witness ==
  /\ Len(events) = 2
  /\ events[1].type = "delete" /\ Len(events[1].content) = 2
  /\ events[2].type = "paste"
  /\ Len(text) = 3

\* C6: an edit that both removes and inserts appends exactly the delete and
\* then the insert, both at position p, and nothing between them.
C6DeleteBeforeInsert ==
  [][ (RemovedSpan(text, text') # <<>> /\ InsertedSpan(text, text') # <<>>)
      => /\ Len(events') = Len(events) + 2
         /\ SubSeq(events', 1, Len(events)) = events
         /\ events'[Len(events) + 1].type = "delete"
         /\ events'[Len(events) + 2].type \in {"insert", "paste"}
         /\ events'[Len(events) + 1].position = LongestPrefix(text, text')
         /\ events'[Len(events) + 2].position = LongestPrefix(text, text')
         /\ events'[Len(events) + 1].timestamp
              <= events'[Len(events) + 2].timestamp ]_vars

C6Witness ==
  /\ Len(events) = 2
  /\ events[1].type = "delete" /\ events[2].type = "insert"
  /\ events[1].position = 1 /\ events[2].position = 1
  /\ events[1].timestamp < events[2].timestamp

NonDecreasing(evs) ==
  \A i \in 1..(Len(evs) - 1) : evs[i].relativeTime <= evs[i + 1].relativeTime

\* C7: relativeTime is non-decreasing in log order in every log the recorder
\* builds, stores or returns.
C7RelativeTimeMonotone ==
  /\ NonDecreasing(events)
  /\ storage # NoSave => NonDecreasing(storage.events)
  /\ completedSession # NoSession => NonDecreasing(completedSession.events)

C7Witness ==
  /\ restored
  /\ Len(events) = 2
  /\ events[2].resumed # -1
  /\ events[1].relativeTime < events[2].relativeTime
  /\ storage # NoSave /\ Len(storage.events) = 1

PrevRelativeTime(evs, i) == IF i = 1 THEN 0 ELSE evs[i - 1].relativeTime

PlayerEvent(type, position, content, relativeTime) ==
  [type |-> type, position |-> position, content |-> content,
   relativeTime |-> relativeTime]

PlayerEventSet ==
  { PlayerEvent("insert", 0, <<"a">>, 1),
    PlayerEvent("insert", 1, <<"b">>, 1),
    PlayerEvent("insert", 0, <<"b">>, 2),
    PlayerEvent("insert", 0, <<>>, 2),
    PlayerEvent("paste",  0, <<"b", "a">>, 1),
    PlayerEvent("paste",  1, <<"a", "b">>, 2),
    PlayerEvent("delete", 0, <<>>, 1),
    PlayerEvent("delete", 1, <<>>, 2),
    PlayerEvent("delete", 0, <<"a">>, 2),
    PlayerEvent("delete", 0, <<"b", "a">>, 2),
    PlayerEvent("focus", -1, <<"Window">>, 1),
    PlayerEvent("navigation", 1, <<>>, 2) }

PlayerLogs == UNION {[1..k -> PlayerEventSet] : k \in 0..PlayerLogLen}

Speeds == {1, 2, 5, 10}

\* the effect on [currentTime, relevantEvents], were it to keep the text of
\* the previous render when the time moves backward
replayEffectStale(t) ==
  IF t < currentTime THEN reconstructedText
  ELSE reconstructTextAtTime(playerEvents, t)

\* the effect on [currentTime, relevantEvents]: the text shown at time t
replayEffect(t) == reconstructTextAtTime(playerEvents, t)

\* lastOp is kept only by the specification of the playback clock
NoHistory == [op |-> "off"]

History(op) == IF lastOp = NoHistory THEN NoHistory ELSE op

PlayerInit ==
  /\ playerEvents \in PlayerLogs
  /\ duration \in {0, PlayerDuration}
  /\ isPlaying = FALSE
  /\ currentTime = 0
  /\ playbackSpeed = 1
  /\ reconstructedText = replayEffect(0)
  /\ frameRequested = FALSE
  /\ prevTime = 0
  /\ lastOp = NoHistory
  /\ RecInit /\ SegIdle /\ AppIdle

PlayerFrame == UNCHANGED <<playerEvents, duration, recVars, segVars, appVars>>

\* the effect on [isPlaying, playbackSpeed, duration], were its clean-up and
\* its else branch not to cancel the pending frame
loopEffectNoCancel(playing) == playing \/ frameRequested

\* the effect on [isPlaying, playbackSpeed, duration] and its clean-up: the
\* pending frame is cancelled, and one is requested if playing.  A click or
\* a change of the range input is rendered, and its effects run, before the
\* handler's event ends.
loopEffect(playing) == playing

handlePlayPause ==
  /\ IF isPlaying
       THEN /\ isPlaying' = FALSE
            /\ currentTime' = currentTime
       ELSE /\ currentTime' = IF currentTime >= duration THEN 0 ELSE currentTime
            /\ isPlaying' = TRUE
  /\ reconstructedText' = replayEffect(currentTime')
  /\ frameRequested' = loopEffect(isPlaying')
  /\ prevTime' = currentTime
  /\ lastOp' = History([op |-> IF isPlaying THEN "pause" ELSE "play"])
  /\ UNCHANGED playbackSpeed
  /\ PlayerFrame

handleReset ==
  /\ isPlaying' = FALSE
  /\ currentTime' = 0
  /\ reconstructedText' = replayEffect(currentTime')
  /\ frameRequested' = loopEffect(isPlaying')
  /\ prevTime' = currentTime
  /\ lastOp' = History([op |-> "reset"])
  /\ UNCHANGED playbackSpeed
  /\ PlayerFrame

\* onChange of the range input (min 0, max duration)
seek ==
  /\ \E v \in 0..duration :
       /\ currentTime' = v
       /\ lastOp' = History([op |-> "seek", value |-> v, playing |-> isPlaying])
  /\ isPlaying' = FALSE
  /\ reconstructedText' = replayEffect(currentTime')
  /\ frameRequested' = loopEffect(isPlaying')
  /\ prevTime' = currentTime
  /\ UNCHANGED playbackSpeed
  /\ PlayerFrame

setPlaybackSpeed ==
  /\ \E speed \in Speeds : playbackSpeed' = speed
  /\ playbackSpeed' # playbackSpeed
  /\ frameRequested' = loopEffect(isPlaying)
  /\ lastOp' = History([op |-> "speed"])
  /\ UNCHANGED <<isPlaying, currentTime, reconstructedText, prevTime>>
  /\ PlayerFrame

\* one run of the requestAnimationFrame callback `loop`, were the clock not
\* stopped at the duration
frameTickNoClamp ==
  /\ frameRequested
  /\ \E delta \in 0..MaxDelta :
       /\ currentTime' = currentTime + delta * playbackSpeed
       /\ currentTime' <= 2 * ClockDuration
       /\ lastOp' = History([op |-> "tick", delta |-> delta])
  /\ isPlaying' = isPlaying
  /\ reconstructedText' = replayEffect(currentTime')
  /\ frameRequested' = TRUE
  /\ prevTime' = currentTime
  /\ UNCHANGED playbackSpeed
  /\ PlayerFrame

\* one run of the requestAnimationFrame callback `loop` and the render of
\* its setCurrentTime: the callback requests the next frame itself
frameTick ==
  /\ frameRequested
  /\ \E delta \in 0..MaxDelta :
       LET nextTime == currentTime + delta * playbackSpeed
       IN  /\ IF nextTime >= duration
                THEN /\ isPlaying' = FALSE
                     /\ currentTime' = duration
                ELSE /\ isPlaying' = isPlaying
                     /\ currentTime' = nextTime
           /\ lastOp' = History([op |-> "tick", delta |-> delta])
  /\ reconstructedText' = replayEffect(currentTime')
  /\ frameRequested' = TRUE
  /\ prevTime' = currentTime
  /\ UNCHANGED playbackSpeed
  /\ PlayerFrame

\* the effect's run after the render in which a frame stopped the playback:
\* it comes after the paint, so a frame may run before it
frameEffect ==
  /\ frameRequested /\ ~isPlaying
  /\ frameRequested' = loopEffect(isPlaying)
  /\ lastOp' = History([op |-> "effect"])
  /\ UNCHANGED <<isPlaying, currentTime, playbackSpeed, reconstructedText,
                 prevTime>>
  /\ PlayerFrame

PlayerNext ==
  \/ handlePlayPause
  \/ handleReset
  \/ seek
  \/ setPlaybackSpeed
  \/ frameTick
  \/ frameEffect

SpecPlayer == PlayerInit /\ [][PlayerNext]_vars

\* the player on two short sessions, with the history of its operations
ClockLogs ==
  { <<>>,
    << PlayerEvent("insert", 0, <<"a">>, 1),
       PlayerEvent("insert", 1, <<"b">>, 2) >> }

ClockInit ==
  /\ playerEvents \in ClockLogs
  /\ duration \in {0, ClockDuration}
  /\ isPlaying = FALSE
  /\ currentTime = 0
  /\ playbackSpeed = 1
  /\ reconstructedText = replayEffect(0)
  /\ frameRequested = FALSE
  /\ prevTime = 0
  /\ lastOp = [op |-> "none"]
  /\ RecInit /\ SegIdle /\ AppIdle

SpecClock == ClockInit /\ [][PlayerNext]_vars

(***************************************************************************)
(* Properties of the replay player                                         *)
(***************************************************************************)
\* the contract of 4.3: filter to the text events with relativeTime <= t,
\* then fold them in order over an empty buffer
RECURSIVE FoldText(_, _, _)
FoldText(evs, i, buf) ==
  IF i > Len(evs) THEN buf
  ELSE FoldText(evs, i + 1, ApplyTextEvent(buf, evs[i]))

FilterFold(evs, t) ==
  FoldText(SelectSeq(evs, LAMBDA e : e.type \in TextTypes /\ e.relativeTime <= t),
           1, <<>>)

\* C3: for every log the player accepts and every t, the text shown is the
\* in-order fold over an empty buffer of exactly the insert, delete and paste
\* events with relativeTime <= t.
C3ReplayIsFilterFold ==
  reconstructedText = FilterFold(playerEvents, currentTime)

\* C4: the text shown at time t is the text a fresh player computes for t,
\* whatever play, pause, seek, reset and speed changes came before.
C4ReplayIsPure ==
  reconstructedText = reconstructTextAtTime(playerEvents, currentTime)

C4Witness ==
  /\ currentTime < prevTime
  /\ currentTime > 0
  /\ reconstructedText # <<>>
  /\ reconstructedText # reconstructTextAtTime(playerEvents, prevTime)

(***************************************************************************)
(* The segmentation pipeline: AnalysisDashboard.calculateMetrics           *)
(***************************************************************************)
PauseThreshold     == 2000

\* the window of isSequential, were a gap of exactly 2000 ms inside it
DeletionWindowInclusive == PauseThreshold + 1
DeletionWindow     == 2000
ReplacementWindow  == 5000
PerDeletionMs      == 100
TypoLimit          == 3
FlushLevelLimit    == 50
RefinedLevelLimit  == 80
ContextLength      == 20

\* buffer.map(e => e.content).join('')
RECURSIVE JoinContents(_)
JoinContents(buffer) ==
  IF buffer = <<>> THEN <<>>
  ELSE Head(buffer).content \o JoinContents(Tail(buffer))

\* reduce((acc, e) => acc + (e.content?.length || 1), 0)
RECURSIVE TotalChars(_)
TotalChars(buffer) ==
  IF buffer = <<>> THEN 0
  ELSE (IF Len(Head(buffer).content) > 0 THEN Len(Head(buffer).content) ELSE 1)
       + TotalChars(Tail(buffer))

HasNewline(content) == \E i \in 1..Len(content) : content[i] = "\n"

\* the closure state of calculateMetrics that the three flush helpers share
SegState ==
  [deletionBuffer        |-> deletionBuffer,
   insertionBuffer       |-> insertionBuffer,
   replacementBuffer     |-> replacementBuffer,
   lastDeletionGroup     |-> lastDeletionGroup,
   isTrackingReplacement |-> isTrackingReplacement,
   deletionGroups        |-> deletionGroups,
   insertionGroups       |-> insertionGroups]

flushReplacement(st) ==
  [st EXCEPT
     !.deletionGroups =
        IF st.lastDeletionGroup # 0 /\ Len(st.replacementBuffer) > 0
          THEN [st.deletionGroups EXCEPT
                  ![st.lastDeletionGroup].hasReplacement = TRUE,
                  ![st.lastDeletionGroup].replacement =
                       JoinContents(st.replacementBuffer)]
          ELSE st.deletionGroups,
     !.lastDeletionGroup = 0,
     !.isTrackingReplacement = FALSE,
     !.replacementBuffer = <<>>]

flushDeletionsInclusive(st) ==
  IF Len(st.deletionBuffer) = 0 THEN st
  ELSE LET totalChars == TotalChars(st.deletionBuffer)
           firstEvent == st.deletionBuffer[1]
           newGroup   ==
             [type     |-> IF totalChars <= TypoLimit THEN "Typo" ELSE "Revision",
              content  |-> JoinContents(st.deletionBuffer),
              count    |-> Len(st.deletionBuffer),
              time     |-> firstEvent.relativeTime,
              position |-> firstEvent.position,
              hasReplacement |-> FALSE,
              replacement    |-> <<>>]
       IN  [st EXCEPT
              !.deletionGroups = Append(st.deletionGroups, newGroup),
              !.lastDeletionGroup = Len(st.deletionGroups) + 1,
              !.deletionBuffer = <<>>]

flushDeletions(st) ==
  IF Len(st.deletionBuffer) = 0 THEN st
  ELSE LET totalChars == TotalChars(st.deletionBuffer)
           firstEvent == st.deletionBuffer[1]
           newGroup   ==
             [type     |-> IF totalChars < TypoLimit THEN "Typo" ELSE "Revision",
              content  |-> JoinContents(st.deletionBuffer),
              count    |-> Len(st.deletionBuffer),
              time     |-> firstEvent.relativeTime,
              position |-> firstEvent.position,
              hasReplacement |-> FALSE,
              replacement    |-> <<>>]
       IN  [st EXCEPT
              !.deletionGroups = Append(st.deletionGroups, newGroup),
              !.lastDeletionGroup = Len(st.deletionGroups) + 1,
              !.deletionBuffer = <<>>]

flushInsertions(st) ==
  IF Len(st.insertionBuffer) = 0 THEN st
  ELSE LET firstEvent      == st.insertionBuffer[1]
           combinedContent == JoinContents(st.insertionBuffer)
       IN  [st EXCEPT
              !.insertionGroups =
                 Append(st.insertionGroups,
                        [content |-> combinedContent,
                         time    |-> firstEvent.relativeTime,
                         count   |-> Len(st.insertionBuffer),
                         level   |-> IF HasNewline(combinedContent)
                                        \/ Len(combinedContent) > FlushLevelLimit
                                       THEN "Paragraph" ELSE "Sentence"]),
              !.insertionBuffer = <<>>]

\* the length an insert advances the cursor by, were it the bare length of
\* its content
lastLenOfContent(last) == Len(last.content)

\* last.content?.length || 1: an absent or empty content counts as 1
lastLen(last) == IF Len(last.content) > 0 THEN Len(last.content) ELSE 1

isSequentialSamePosition(buffer, current) ==
  IF Len(buffer) = 0 THEN TRUE
  ELSE LET last == buffer[Len(buffer)]
       IN  IF current.type = "delete"
             THEN current.position = last.position
             ELSE current.position
                    = last.position
                      + (IF Len(last.content) > 0 THEN Len(last.content) ELSE 1)

isSequential(buffer, current) ==
  IF Len(buffer) = 0 THEN TRUE
  ELSE LET last == buffer[Len(buffer)]
       IN  IF current.type = "delete"
             THEN current.timestamp - last.timestamp < DeletionWindow
             ELSE current.position = last.position + lastLen(last)

\* step 1 of the loop body, were a gap of exactly the threshold a pause
PauseOfInclusive(event, buf) ==
  IF event.pauseBefore >= PauseThreshold
    THEN LET lastFewChars ==
               [i \in 1..Len(Slice(buf, -ContextLength, Len(buf))) |->
                  IF Slice(buf, -ContextLength, Len(buf))[i] = "\n"
                    THEN "<nl>"
                    ELSE Slice(buf, -ContextLength, Len(buf))[i]]
             lastChar == Slice(buf, -1, Len(buf))
         IN  << [duration  |-> event.pauseBefore,
                 startTime |-> event.relativeTime - event.pauseBefore,
                 context   |-> IF lastFewChars = <<>>
                                 THEN <<"(Start of doc)">> ELSE lastFewChars,
                 locationType |->
                   IF Len(buf) = 0 THEN "Start"
                   ELSE IF lastChar = <<"\n">> THEN "Paragraph"
                   ELSE IF lastChar \in {<<".">>, <<"?">>, <<"!">>} THEN "Sentence"
                   ELSE IF lastChar = <<" ">> THEN "Word"
                   ELSE "Mid-word"] >>
    ELSE << >>

\* step 1 of the loop body: the PauseInfo of an event, if any
PauseOf(event, buf) ==
  IF event.pauseBefore > PauseThreshold
    THEN LET lastFewChars ==
               [i \in 1..Len(Slice(buf, -ContextLength, Len(buf))) |->
                  IF Slice(buf, -ContextLength, Len(buf))[i] = "\n"
                    THEN "<nl>"
                    ELSE Slice(buf, -ContextLength, Len(buf))[i]]
             lastChar == Slice(buf, -1, Len(buf))
         IN  << [duration  |-> event.pauseBefore,
                 startTime |-> event.relativeTime - event.pauseBefore,
                 context   |-> IF lastFewChars = <<>>
                                 THEN <<"(Start of doc)">> ELSE lastFewChars,
                 locationType |->
                   IF Len(buf) = 0 THEN "Start"
                   ELSE IF lastChar = <<"\n">> THEN "Paragraph"
                   ELSE IF lastChar \in {<<".">>, <<"?">>, <<"!">>} THEN "Sentence"
                   ELSE IF lastChar = <<" ">> THEN "Word"
                   ELSE "Mid-word"] >>
    ELSE << >>

\* step 2 for an insert or paste, were an insert at the end of the text
\* non-linear as well
TrackInsertInclusive(st0, event, buf) ==
  LET st1 == flushDeletions(st0)
      isReplacementStart ==
        /\ st1.lastDeletionGroup # 0
        /\ event.position = st1.deletionGroups[st1.lastDeletionGroup].position
        /\ event.timestamp
             - (st1.deletionGroups[st1.lastDeletionGroup].time
                + st1.deletionGroups[st1.lastDeletionGroup].count * PerDeletionMs)
           < ReplacementWindow
  IN  IF isReplacementStart
         \/ (st1.isTrackingReplacement
             /\ isSequential(st1.replacementBuffer, event))
        THEN [st1 EXCEPT !.isTrackingReplacement = TRUE,
                         !.replacementBuffer = Append(@, event)]
        ELSE LET st2 == flushReplacement(st1)
             IN  IF event.position <= Len(buf)
                   THEN IF isSequential(st2.insertionBuffer, event)
                          THEN [st2 EXCEPT !.insertionBuffer = Append(@, event)]
                          ELSE [flushInsertions(st2) EXCEPT
                                  !.insertionBuffer = <<event>>]
                   ELSE flushInsertions(st2)

\* step 2 for an insert or paste, up to the splice
TrackInsert(st0, event, buf) ==
  LET st1 == flushDeletions(st0)
      isReplacementStart ==
        /\ st1.lastDeletionGroup # 0
        /\ event.position = st1.deletionGroups[st1.lastDeletionGroup].position
        /\ event.timestamp
             - (st1.deletionGroups[st1.lastDeletionGroup].time
                + st1.deletionGroups[st1.lastDeletionGroup].count * PerDeletionMs)
           < ReplacementWindow
  IN  IF isReplacementStart
         \/ (st1.isTrackingReplacement
             /\ isSequential(st1.replacementBuffer, event))
        THEN [st1 EXCEPT !.isTrackingReplacement = TRUE,
                         !.replacementBuffer = Append(@, event)]
        ELSE LET st2 == flushReplacement(st1)
             IN  IF event.position < Len(buf)
                   THEN IF isSequential(st2.insertionBuffer, event)
                          THEN [st2 EXCEPT !.insertionBuffer = Append(@, event)]
                          ELSE [flushInsertions(st2) EXCEPT
                                  !.insertionBuffer = <<event>>]
                   ELSE flushInsertions(st2)

\* step 2 for a delete, up to the removal
TrackDelete(st0, event) ==
  LET st2 == flushReplacement(flushInsertions(st0))
  IN  IF isSequential(st2.deletionBuffer, event)
        THEN [st2 EXCEPT !.deletionBuffer = Append(@, event)]
        ELSE [flushDeletions(st2) EXCEPT !.deletionBuffer = <<event>>]

\* the branch for the other event types, were it to leave the buffers alone
FlushNothing(st) == st

FlushAll(st) == flushReplacement(flushInsertions(flushDeletions(st)))

TrackEvent(st, event, buf) ==
  IF event.type \in {"insert", "paste"} THEN TrackInsert(st, event, buf)
  ELSE IF event.type = "delete" THEN TrackDelete(st, event)
  ELSE FlushAll(st)

\* the pipeline's buffer update, were a delete always one character long
SegApplyOneChar(buf, event) ==
  IF event.type \in {"insert", "paste"}
    THEN Slice(buf, 0, event.position) \o event.content
         \o SliceFrom(buf, event.position)
  ELSE IF event.type = "delete"
    THEN Slice(buf, 0, event.position) \o SliceFrom(buf, event.position + 1)
  ELSE buf

\* the pipeline's own splice (insert/paste) and removal (delete) on currentText
SegApply(buf, event) ==
  IF event.type \in {"insert", "paste"}
    THEN Slice(buf, 0, event.position) \o event.content
         \o SliceFrom(buf, event.position)
  ELSE IF event.type = "delete"
    THEN LET deleteLen == IF Len(event.content) > 0
                            THEN Len(event.content) ELSE 1
         IN  Slice(buf, 0, event.position)
             \o SliceFrom(buf, event.position + deleteLen)
  ELSE buf

\* the groups returned with the level they were flushed with
refinedInsertionsAsFlushed(groups) == groups

refinedInsertions(groups) ==
  [i \in 1..Len(groups) |->
     [groups[i] EXCEPT
        !.level = IF HasNewline(groups[i].content)
                     \/ Len(groups[i].content) > RefinedLevelLimit
                    THEN "Paragraph" ELSE "Sentence"]]

SetSegState(st) ==
  /\ deletionBuffer' = st.deletionBuffer
  /\ insertionBuffer' = st.insertionBuffer
  /\ replacementBuffer' = st.replacementBuffer
  /\ lastDeletionGroup' = st.lastDeletionGroup
  /\ isTrackingReplacement' = st.isTrackingReplacement
  /\ deletionGroups' = st.deletionGroups

\* one iteration of session.events.forEach
\* the loop body, were the pause context read after the event's own change
segStepContextAfter ==
  /\ ~segDone
  /\ segIdx < Len(segEvents)
  /\ LET event == segEvents[segIdx + 1]
         st    == TrackEvent(SegState, event, currentText)
     IN  /\ pauses' = pauses \o PauseOf(event, SegApply(currentText, event))
         /\ SetSegState(st)
         /\ insertionGroups' = st.insertionGroups
         /\ currentText' = SegApply(currentText, event)
  /\ segIdx' = segIdx + 1
  /\ UNCHANGED <<segEvents, segDone, previousRun, recVars, playerVars,
                 appVars>>

segStep ==
  /\ ~segDone
  /\ segIdx < Len(segEvents)
  /\ LET event == segEvents[segIdx + 1]
         st    == TrackEvent(SegState, event, currentText)
     IN  /\ pauses' = pauses \o PauseOf(event, currentText)
         /\ SetSegState(st)
         /\ insertionGroups' = st.insertionGroups
         /\ currentText' = SegApply(currentText, event)
  /\ segIdx' = segIdx + 1
  /\ UNCHANGED <<segEvents, segDone, previousRun, recVars, playerVars,
                 appVars>>

\* the return, were the pending buffers not flushed after the loop
segFinishNoFlush ==
  /\ ~segDone
  /\ segIdx = Len(segEvents)
  /\ LET st == SegState
     IN  /\ SetSegState(st)
         /\ insertionGroups' = refinedInsertions(st.insertionGroups)
  /\ segDone' = TRUE
  /\ UNCHANGED <<segEvents, segIdx, currentText, pauses, previousRun,
                 recVars, playerVars, appVars>>

\* after the loop: the three flushes, refinedInsertions and the return
segFinish ==
  /\ ~segDone
  /\ segIdx = Len(segEvents)
  /\ LET st == FlushAll(SegState)
     IN  /\ SetSegState(st)
         /\ insertionGroups' = refinedInsertions(st.insertionGroups)
  /\ segDone' = TRUE
  /\ UNCHANGED <<segEvents, segIdx, currentText, pauses, previousRun,
                 recVars, playerVars, appVars>>

\* the locals of a call of calculateMetrics, were the groups of the call
\* before kept
SegFreshKeepsGroups ==
  [currentText |-> <<>>, deletionBuffer |-> <<>>, insertionBuffer |-> <<>>,
   replacementBuffer |-> <<>>, lastDeletionGroup |-> 0,
   isTrackingReplacement |-> FALSE, pauses |-> <<>>,
   deletionGroups |-> deletionGroups, insertionGroups |-> <<>>]

\* the locals of a call of calculateMetrics as it declares them
SegFresh ==
  [currentText |-> <<>>, deletionBuffer |-> <<>>, insertionBuffer |-> <<>>,
   replacementBuffer |-> <<>>, lastDeletionGroup |-> 0,
   isTrackingReplacement |-> FALSE, pauses |-> <<>>,
   deletionGroups |-> <<>>, insertionGroups |-> <<>>]

\* the dashboard is mounted again on the same session (Write, then Analyze):
\* its effect calls calculateMetrics(session) once more
segRerun ==
  /\ segDone
  /\ previousRun' = [pauses |-> pauses, deletionGroups |-> deletionGroups,
                     insertionGroups |-> insertionGroups]
  /\ segIdx' = 0 /\ segDone' = FALSE
  /\ currentText' = SegFresh.currentText
  /\ deletionBuffer' = SegFresh.deletionBuffer
  /\ insertionBuffer' = SegFresh.insertionBuffer
  /\ replacementBuffer' = SegFresh.replacementBuffer
  /\ lastDeletionGroup' = SegFresh.lastDeletionGroup
  /\ isTrackingReplacement' = SegFresh.isTrackingReplacement
  /\ pauses' = SegFresh.pauses
  /\ deletionGroups' = SegFresh.deletionGroups
  /\ insertionGroups' = SegFresh.insertionGroups
  /\ UNCHANGED <<segEvents, recVars, playerVars, appVars>>

(***************************************************************************)
(* Logs given to the pipeline: sessions recorded by the editor, built by   *)
(* feeding text snapshots to Diff Capture and logEvent at chosen gaps      *)
(***************************************************************************)
RECURSIVE RecordScript(_, _, _, _, _, _)
RecordScript(script, txt, evs, last, t, start) ==
  IF script = <<>> THEN evs
  ELSE LET t1       == t + Head(script).gap
           partials == IF "key" \in DOMAIN Head(script)
                         THEN << [type |-> "navigation",
                                  position |-> Head(script).sel,
                                  content |-> <<>>,
                                  actionDetails |-> Head(script).key] >>
                         ELSE IF "window" \in DOMAIN Head(script)
                         THEN << [type |-> Head(script).window,
                                  position |-> -1,
                                  content |-> <<"Window">>,
                                  actionDetails |-> ""] >>
                         ELSE DiffEvents(txt, Head(script).text)
           r0       == [events |-> evs, lastEventTime |-> last, resumedAt |-> -1]
           r1       == IF Len(partials) >= 1
                         THEN logEvent(RECORDING, r0.events, start,
                                       r0.lastEventTime, -1, partials[1], t1)
                         ELSE r0
           r2       == IF Len(partials) >= 2
                         THEN logEvent(RECORDING, r1.events, start,
                                       r1.lastEventTime, -1, partials[2], t1)
                         ELSE r1
       IN  RecordScript(Tail(script), Head(script).text, r2.events,
                        r2.lastEventTime, t1, start)

\* the session recorded from SegEpoch on for the snapshots `texts`, the i-th
\* arriving gaps[i] ms after the one before
Recorded(texts, gaps) ==
  RecordScript([i \in 1..Len(texts) |-> [text |-> texts[i], gap |-> gaps[i]]],
               <<>>, <<>>, SegEpoch, SegEpoch, SegEpoch)

\* the session recorded from SegEpoch on for a script of text snapshots and
\* arrow keys
RecordedScript(script) ==
  RecordScript(script, <<>>, <<>>, SegEpoch, SegEpoch, SegEpoch)

Snapshots(texts, gaps) ==
  [i \in 1..Len(texts) |-> [text |-> texts[i], gap |-> gaps[i]]]

\* ArrowLeft pressed n times in the text `txt` from cursor position `from`,
\* `gap` ms apart; the text stays as it is
ArrowsLeft(txt, from, n, gap) ==
  [i \in 1..n |->
     [key |-> "ArrowLeft", sel |-> from - i + 1, text |-> txt, gap |-> gap]]

\* `word` typed key by key into `base` at position pos
TypingAt(base, pos, word) ==
  [i \in 1..Len(word) |->
     SubSeq(base, 1, pos) \o SubSeq(word, 1, i)
       \o SubSeq(base, pos + 1, Len(base))]

Typing(base, word) == [i \in 1..Len(word) |-> base \o SubSeq(word, 1, i)]

Backspacing(word, n) == [i \in 1..n |-> SubSeq(word, 1, Len(word) - i)]

Repeat(n, gap) == [i \in 1..n |-> gap]

KeyGap == 150

Hello == <<"H", "e", "l", "l", "o">>
Cat   == <<"c", "a", "t">>
Dog   == <<"d", "o", "g">>

\* Scenario B: "Hello" typed, then backspaced to nothing
ScenarioBLogs ==
  { Recorded(Typing(<<>>, Hello) \o Backspacing(Hello, 5),
             Repeat(5, KeyGap) \o <<g0>> \o g) :
      g0 \in {400, 2500}, g \in [1..4 -> {1, 1999, 2000}] }

\* Scenario C: "cat" typed, a 3000 ms pause, one backspace, "dog" retyped at
\* the same position, key by key or as one paste
ScenarioCLogs ==
  { Recorded(Typing(<<>>, Cat) \o Backspacing(Cat, 1)
               \o Typing(SubSeq(Cat, 1, 2), Dog),
             Repeat(3, KeyGap) \o <<3000>> \o <<g>> \o Repeat(2, KeyGap)) :
      g \in {0, 50, 1900} }
  \cup
  { Recorded(Typing(<<>>, Cat) \o Backspacing(Cat, 1)
               \o <<SubSeq(Cat, 1, 2) \o Dog>>,
             Repeat(3, KeyGap) \o <<3000>> \o <<g>>) :
      g \in {0, 50, 1900} }

TheCatRan == <<"T", "h", "e", " ", "c", "a", "t", " ", "r", "a", "n", ".">>
Big       == <<"b", "i", "g", " ">>
TheBigCatRan == SubSeq(TheCatRan, 1, 4) \o Big \o SubSeq(TheCatRan, 5, 12)

\* the session `evs`, whose text is `txt`, recorded further
ContinuedScript(evs, txt, script) ==
  RecordScript(script, txt, evs, evs[Len(evs)].timestamp,
               evs[Len(evs)].timestamp, SegEpoch)

TheCatRanTyped ==
  RecordedScript(Snapshots(Typing(<<>>, TheCatRan), Repeat(12, KeyGap)))

\* Scenario D: "The cat ran." typed, the cursor moved to position 4 by the
\* mouse (no event) or by eight ArrowLeft keys, "big " inserted there key by
\* key or as one paste after a gap g; then nothing more, or one more
\* character typed at the start or at the end of the document
ScenarioDLogs ==
  { ContinuedScript(TheCatRanTyped, TheCatRan,
      move
      \o Snapshots(big, <<g>> \o Repeat(Len(big) - 1, KeyGap))
      \o Snapshots(more, Repeat(Len(more), KeyGap))) :
      move \in {<<>>, ArrowsLeft(TheCatRan, 12, 8, KeyGap)},
      big  \in {TypingAt(TheCatRan, 4, Big), <<TheBigCatRan>>},
      g    \in {KeyGap, 2500},
      more \in {<<>>, << <<"X">> \o TheBigCatRan >>,
                << TheBigCatRan \o <<"!">> >>} }

\* gaps at the pause threshold before events of each type: "a" and "b"
\* typed, ArrowLeft, "b" removed with Delete, "xy" pasted at the end
PauseBoundaryLogs ==
  { RecordedScript(
      Snapshots(Typing(<<>>, <<"a", "b">>), <<g[1], g[2]>>)
      \o ArrowsLeft(<<"a", "b">>, 2, 1, g[3])
      \o Snapshots(<< <<"a">>, <<"a", "x", "y">> >>, <<g[4], g[5]>>)) :
      g \in [1..5 -> {KeyGap, 2000, 2001}] }

\* "Hello" typed, its last n characters selected and deleted at once, then
\* nothing more or one backspace after a gap g
SelectionDeleteLogs ==
  { RecordedScript(
      Snapshots(Typing(<<>>, Hello) \o <<SubSeq(Hello, 1, 5 - n)>>
                  \o SubSeq(Backspacing(SubSeq(Hello, 1, 5 - n), 1), 1, k),
                Repeat(6, KeyGap) \o Repeat(k, g))) :
      n \in 1..4, k \in 0..1, g \in {KeyGap, 2000} }

\* an event of a hand-edited log: handleFileUpload checks only that id,
\* events (an array) and finalText are present; absent content is <<>>
ImportedEvent(type, position, content, relativeTime, pauseBefore) ==
  [timestamp |-> SegEpoch + relativeTime, relativeTime |-> relativeTime,
   pauseBefore |-> pauseBefore, resumed |-> -1, type |-> type,
   position |-> position, content |-> content, actionDetails |-> ""]

ImportLen == 3

\* the edits a hand-edited log makes to the text "abc": deletes and inserts
\* without content, and positions and lengths outside the text
ImportedEdits ==
  { [type |-> "delete", position |-> 2, content |-> <<>>],
    [type |-> "delete", position |-> 1, content |-> <<>>],
    [type |-> "delete", position |-> 0, content |-> <<>>],
    [type |-> "delete", position |-> -1, content |-> <<"c">>],
    [type |-> "delete", position |-> 1, content |-> <<"b", "c", "d">>],
    [type |-> "delete", position |-> 5, content |-> <<"x">>],
    [type |-> "insert", position |-> -1, content |-> <<"X">>],
    [type |-> "insert", position |-> 0, content |-> <<>>],
    [type |-> "insert", position |-> 1, content |-> <<"Y">>],
    [type |-> "insert", position |-> 7, content |-> <<"X">>],
    [type |-> "paste", position |-> -2, content |-> <<"X", "Y">>] }

ImportedLogs ==
  { <<ImportedEvent("paste", 0, <<"a", "b", "c">>, KeyGap, KeyGap)>>
    \o [i \in 1..Len(edits) |->
          ImportedEvent(edits[i].type, edits[i].position, edits[i].content,
                        (i + 1) * KeyGap, KeyGap)] :
      edits \in UNION {[1..k -> ImportedEdits] : k \in 1..ImportLen} }

Abc == <<"a", "b", "c">>

\* "abc" typed, then removed by three Backspace keys from the end or, the
\* cursor put at the start by the mouse, by three Delete keys; the second
\* and third removal come g[1] and g[2] ms after the one before
DeleteGapLogs ==
  { Recorded(Typing(<<>>, Abc) \o removal,
             Repeat(4, KeyGap) \o <<g[1], g[2]>>) :
      removal \in {Backspacing(Abc, 3), << <<"b", "c">>, <<"c">>, <<>> >>},
      g \in [1..2 -> {1999, 2000, 2001}] }

Ow == <<"o", "w">>

\* "cat" typed, its last k characters removed by k Backspace keys, then "ow"
\* typed where the removed text began, key by key or as one paste, g ms
\* after the last Backspace
BackspaceRetypeLogs ==
  UNION {
    { Recorded(Typing(<<>>, Cat) \o Backspacing(Cat, k) \o retyped,
               Repeat(3 + k, KeyGap) \o <<g>>
                 \o Repeat(Len(retyped) - 1, KeyGap)) :
        g \in {KeyGap, 1900},
        retyped \in {Typing(SubSeq(Cat, 1, 3 - k), Ow),
                     << SubSeq(Cat, 1, 3 - k) \o Ow >>} } :
    k \in 2..3 }

Axbc == <<"a", "x", "b", "c">>

\* the window loses and regains the focus: handleBlur, then handleFocus
BlurFocus(txt, gap) ==
  << [window |-> "blur", text |-> txt, gap |-> gap],
     [window |-> "focus", text |-> txt, gap |-> gap] >>

\* ArrowLeft, then ArrowRight: the cursor is back at position `from`
ArrowLeftRight(txt, from, gap) ==
  << [key |-> "ArrowLeft", sel |-> from, text |-> txt, gap |-> gap],
     [key |-> "ArrowRight", sel |-> from - 1, text |-> txt, gap |-> gap] >>

\* "abc" typed, the cursor put after "a" by the mouse, "x" and "y" typed
\* there with `between[1]` in between, then two Backspace keys with
\* `between[2]` in between: nothing, ArrowLeft and ArrowRight, or the window
\* losing and regaining the focus
SegmentBoundaryLogs ==
  { RecordedScript(
      Snapshots(Typing(<<>>, Abc), Repeat(3, KeyGap))
      \o Snapshots(<<Axbc>>, <<KeyGap>>)
      \o between[1]
      \o Snapshots(<< <<"a", "x", "y", "b", "c">> >>, <<KeyGap>>)
      \o Snapshots(<<Axbc>>, <<KeyGap>>)
      \o between[2]
      \o Snapshots(<< <<"a", "b", "c">> >>, <<KeyGap>>)) :
      between \in [1..2 -> {<<>>, ArrowLeftRight(Axbc, 2, KeyGap),
                            BlurFocus(Axbc, KeyGap)}] }

\* `word` put into `base` at position pos in one change
SplicedAt(base, pos, word) ==
  SubSeq(base, 1, pos) \o word \o SubSeq(base, pos + 1, Len(base))

\* "ab" typed, the cursor put after "a" by the mouse and "x" typed there;
\* then, the cursor put by the mouse where it is needed, `word` goes in at
\* position pos (right after "x", before "a", or at the end of the text),
\* and at last "z" goes in after "a"
EndInsertLogs ==
  { Recorded(Typing(<<>>, <<"a", "b">>)
               \o << <<"a", "x", "b">>,
                     SplicedAt(<<"a", "x", "b">>, pos, word),
                     SplicedAt(SplicedAt(<<"a", "x", "b">>, pos, word),
                               1, <<"z">>) >>,
             Repeat(5, KeyGap)) :
      pos \in {0, 2, 3}, word \in {<<"y">>, <<"y", "y">>} }

\* "ab" typed, the cursor put at the start by the mouse, then text pasted
\* there in one or two contiguous pastes: runs of "x" of 50, 51, 80 and 81
\* characters in all, and short texts holding a line break
LevelLogs ==
  { Recorded(Typing(<<>>, <<"a", "b">>)
               \o [i \in 1..Len(pastes) |->
                     JoinContents([k \in 1..i |-> [content |-> pastes[k]]])
                       \o <<"a", "b">>],
             Repeat(2 + Len(pastes), KeyGap)) :
      pastes \in { <<Repeat(50, "x")>>, <<Repeat(51, "x")>>,
                   <<Repeat(80, "x")>>, <<Repeat(81, "x")>>,
                   <<Repeat(40, "x"), Repeat(40, "x")>>,
                   <<Repeat(40, "x"), Repeat(41, "x")>>,
                   << <<"x", "\n">> >>,
                   << <<"x", "y">>, <<"\n", "z">> >> } }

PauseGap == 2500

\* two characters typed and the second removed by Backspace, each after a
\* pause: the pauses begin on an empty text, after the first character and
\* after the second
PauseContextLogs ==
  { Recorded(<< <<c[1]>>, <<c[1], c[2]>>, <<c[1]>> >>, Repeat(3, PauseGap)) :
      c \in [1..2 -> {"a", " ", ".", "?", "!", "\n"}] }

SegLogs ==
  ScenarioBLogs \cup ScenarioCLogs \cup ScenarioDLogs \cup PauseBoundaryLogs
    \cup SelectionDeleteLogs \cup ImportedLogs \cup DeleteGapLogs
    \cup BackspaceRetypeLogs \cup SegmentBoundaryLogs \cup EndInsertLogs
    \cup LevelLogs \cup PauseContextLogs

SegInit ==
  /\ segEvents \in SegLogs
  /\ segIdx = 0 /\ segDone = FALSE
  /\ currentText = <<>> /\ deletionBuffer = <<>> /\ insertionBuffer = <<>>
  /\ replacementBuffer = <<>> /\ lastDeletionGroup = 0
  /\ isTrackingReplacement = FALSE
  /\ pauses = <<>> /\ deletionGroups = <<>> /\ insertionGroups = <<>>
  /\ previousRun = NoRun
  /\ RecInit /\ PlayerIdle /\ AppIdle

SegNext == segStep \/ segFinish \/ segRerun

SpecSeg == SegInit /\ [][SegNext]_vars

(***************************************************************************)
(* Properties of the segmentation pipeline                                 *)
(***************************************************************************)
TypeAt(evs, i) == evs[i].type

\* the log is: `word` typed key by key, then n single-character deletes
TypedThenDeleted(evs, word, n) ==
  /\ Len(evs) = Len(word) + n
  /\ \A i \in 1..Len(word) :
       /\ evs[i].type = "insert" /\ evs[i].position = i - 1
       /\ evs[i].content = <<word[i]>>
  /\ \A i \in (Len(word) + 1)..Len(evs) :
       /\ evs[i].type = "delete" /\ Len(evs[i].content) = 1

IsScenarioB(evs) ==
  /\ TypedThenDeleted(evs, Hello, 5)
  /\ \A i \in 1..5 :
       /\ evs[5 + i].position = 5 - i
       /\ evs[5 + i].content = <<Hello[6 - i]>>

\* each delete of Scenario B after the first comes at most / less than `w`
\* ms after the previous one
DeleteGapsAtMost(evs, w) ==
  \A i \in 7..10 : evs[i].timestamp - evs[i - 1].timestamp <= w

DeleteGapsBelow(evs, w) ==
  \A i \in 7..10 : evs[i].timestamp - evs[i - 1].timestamp < w

IsScenarioC(evs) ==
  /\ Len(evs) >= 5
  /\ TypedThenDeleted(SubSeq(evs, 1, 4), Cat, 1)
  /\ evs[4].position = 2 /\ evs[4].pauseBefore = 3000
  /\ \A i \in 5..Len(evs) :
       /\ evs[i].type \in {"insert", "paste"}
       /\ evs[i].timestamp - evs[4].timestamp < ReplacementWindow
       /\ evs[i].timestamp = SegEpoch + evs[i].relativeTime
  /\ evs[5].position = 2
  /\ JoinContents(SubSeq(evs, 5, Len(evs))) = Dog

\* C9: Scenario C yields exactly one DeletionGroup, a Typo with replacement
\* "dog", exactly one PauseInfo, of duration 3000, and no InsertionGroup.
C9ScenarioC ==
  (segDone /\ IsScenarioC(segEvents)) =>
     /\ Len(deletionGroups) = 1
     /\ deletionGroups[1].type = "Typo"
     /\ deletionGroups[1].hasReplacement
     /\ deletionGroups[1].replacement = Dog
     /\ Len(pauses) = 1
     /\ pauses[1].duration = 3000
     /\ insertionGroups = <<>>

\* C10 as stated: Scenario B with each delete within 2000 ms of the previous
\* one yields exactly one DeletionGroup: Revision, count 5, content "Hello".
C10ScenarioBHello ==
  (segDone /\ IsScenarioB(segEvents) /\ DeleteGapsAtMost(segEvents, 2000)) =>
     /\ Len(deletionGroups) = 1
     /\ deletionGroups[1].type = "Revision"
     /\ deletionGroups[1].count = 5
     /\ deletionGroups[1].content = Hello

\* C10 amended: Scenario B with each delete less than 2000 ms after the
\* previous one yields exactly one DeletionGroup: Revision, count 5, whose
\* content is the deleted characters in deletion order, "olleH".
C10ScenarioB ==
  (segDone /\ IsScenarioB(segEvents) /\ DeleteGapsBelow(segEvents, 2000)) =>
     /\ Len(deletionGroups) = 1
     /\ deletionGroups[1].type = "Revision"
     /\ deletionGroups[1].count = 5
     /\ deletionGroups[1].content = <<"o", "l", "l", "e", "H">>

C10Witness ==
  /\ segDone /\ IsScenarioB(segEvents) /\ DeleteGapsBelow(segEvents, 2000)
  /\ segEvents[7].timestamp - segEvents[6].timestamp = 1999
  /\ Len(deletionGroups) = 1

\* the event of the loop body about to run, and the test of isSequential for
\* inserts
SegEvent == segEvents[segIdx + 1]

Contiguous(last, event) ==
  event.position
    = last.position + (IF Len(last.content) > 0 THEN Len(last.content) ELSE 1)

IsScenarioD(evs) ==
  LET tev == relevantEvents(evs)
      k   == Len(tev) - 12
  IN  /\ k >= 1
      /\ \A i \in 1..12 :
           /\ tev[i].type = "insert" /\ tev[i].position = i - 1
           /\ tev[i].content = <<TheCatRan[i]>>
      /\ SubSeq(evs, Len(evs) - k + 1, Len(evs)) = SubSeq(tev, 13, Len(tev))
      /\ \A i \in 13..Len(tev) :
           /\ tev[i].type \in {"insert", "paste"}
           /\ tev[i].position = 4 + Len(JoinContents(SubSeq(tev, 13, i - 1)))
      /\ JoinContents(SubSeq(tev, 13, Len(tev))) = Big

C11ScenarioD ==
  (segDone /\ IsScenarioD(segEvents)) =>
     /\ Len(insertionGroups) = 1
     /\ insertionGroups[1].content = Big
     /\ insertionGroups[1].level = "Sentence"

C11Step ==
  /\ (/\ segIdx' = segIdx + 1
      /\ SegEvent.type \in {"insert", "paste"}
      /\ replacementBuffer' # Append(replacementBuffer, SegEvent)
      /\ SegEvent.position < Len(currentText))
     => insertionBuffer'
          = IF insertionBuffer # <<>>
               /\ Contiguous(insertionBuffer[Len(insertionBuffer)], SegEvent)
              THEN Append(insertionBuffer, SegEvent)
              ELSE <<SegEvent>>
  /\ Len(insertionGroups') = Len(insertionGroups) + 1
     => /\ insertionGroups'[Len(insertionGroups')].content
             = JoinContents(insertionBuffer)
        /\ insertionGroups'[Len(insertionGroups')].count
             = Len(insertionBuffer)

\* C11: an insert or paste that is not part of a replacement and lies
\* strictly inside the current text starts an insertion buffer, or joins the
\* buffer it is contiguous with, and each buffer is emitted as one
\* InsertionGroup; Scenario D ("The cat ran.", then "big " at position 4 as
\* one paste or four keystrokes) yields exactly one InsertionGroup, content
\* "big ", level Sentence.
C11NonLinearInsertion == [](C11ScenarioD) /\ [][C11Step]_vars

C11Witness ==
  /\ segDone /\ IsScenarioD(segEvents)
  /\ Len(relevantEvents(segEvents)) = 16
  /\ Len(segEvents) = 24
  /\ Len(insertionGroups) = 1
  /\ insertionGroups[1].count = 4

\* the events among the first n of the log whose gap (pauseBefore) is above
\* 2000 ms
LongGapEvents(evs, n) ==
  SelectSeq(SubSeq(evs, 1, n), LAMBDA e : e.pauseBefore > 2000)

\* C12: the pipeline records a PauseInfo for an event of any type exactly
\* when the gap before it (its pauseBefore) exceeds 2000 ms: after n events
\* the PauseInfo records are, in order, those of the events among them whose
\* gap is above 2000 ms; 2000 ms itself gives none, 2001 ms gives one.
C12PauseBoundary ==
  LET long == LongGapEvents(segEvents, segIdx)
  IN  /\ Len(pauses) = Len(long)
      /\ \A k \in 1..Len(long) :
           /\ pauses[k].duration = long[k].pauseBefore
           /\ pauses[k].startTime = long[k].relativeTime - long[k].pauseBefore

C12Witness ==
  /\ segDone
  /\ Len(segEvents) = 5
  /\ segEvents[1].pauseBefore = 2000
  /\ segEvents[2].pauseBefore = 2001
  /\ segEvents[3].type = "navigation" /\ segEvents[3].pauseBefore = 2001
  /\ segEvents[4].type = "delete" /\ segEvents[4].pauseBefore = 2000
  /\ segEvents[5].type = "paste" /\ segEvents[5].pauseBefore = 2001
  /\ Len(pauses) = 3

\* the characters a buffer of delete events removes: the length of each
\* event's content, 1 when the content is absent or empty
RECURSIVE DeletedChars(_)
DeletedChars(buffer) ==
  IF buffer = <<>> THEN 0
  ELSE (IF Head(buffer).content = <<>> THEN 1 ELSE Len(Head(buffer).content))
       + DeletedChars(Tail(buffer))

C13Step ==
  /\ Len(deletionGroups') = Len(deletionGroups) + 1
     => deletionGroups'[Len(deletionGroups')].type
          = IF DeletedChars(deletionBuffer) < 3 THEN "Typo" ELSE "Revision"
  /\ Len(deletionGroups') >= Len(deletionGroups)
     => \A k \in 1..Len(deletionGroups) :
          deletionGroups'[k].type = deletionGroups[k].type

\* C13: every DeletionGroup is emitted with type Typo if its events delete
\* fewer than 3 characters in total (the length of each event's content, 1
\* when absent or empty) and Revision otherwise, and keeps that type; 2
\* deleted characters give Typo, 3 give Revision.
C13ClassificationBoundary == [][C13Step]_vars

C13Witness ==
  /\ segDone /\ IsScenarioB(segEvents)
  /\ Len(deletionGroups) = 2
  /\ deletionGroups[1].count = 2 /\ deletionGroups[1].type = "Typo"
  /\ deletionGroups[2].count = 3 /\ deletionGroups[2].type = "Revision"

ClampedApply(buf, e) ==
  LET pos == Max(0, Min(e.position, Len(buf)))
  IN  IF e.type \in {"insert", "paste"}
        THEN SubSeq(buf, 1, pos) \o e.content \o SubSeq(buf, pos + 1, Len(buf))
      ELSE IF e.type = "delete"
        THEN LET deleteLen == IF e.content = <<>> THEN 1 ELSE Len(e.content)
                 n         == Min(deleteLen, Len(buf) - pos)
             IN  SubSeq(buf, 1, pos) \o SubSeq(buf, pos + n + 1, Len(buf))
      ELSE buf

RECURSIVE ClampedFold(_, _, _)
ClampedFold(evs, i, buf) ==
  IF i > Len(evs) THEN buf
  ELSE ClampedFold(evs, i + 1, ClampedApply(buf, evs[i]))

C15Step ==
  segIdx' = segIdx + 1 =>
     /\ currentText' = ClampedApply(currentText, SegEvent)
     /\ SegEvent.type = "delete" => Len(currentText') <= Len(currentText)

\* C15: on every log, positions and deletion lengths outside the text
\* included, segmentation and replay apply each event as if its position
\* were clamped into [0, length] and its deletion length to the characters
\* available; a delete never makes the text longer.
C15ClampedReconstruction ==
  /\ [](segEvents # <<>> =>
          reconstructTextAtTime(segEvents,
                                segEvents[Len(segEvents)].relativeTime)
            = ClampedFold(relevantEvents(segEvents), 1, <<>>))
  /\ [][C15Step]_vars

(***************************************************************************)
(* Properties of the playback clock                                        *)
(***************************************************************************)
C16Tick ==
  lastOp'.op = "tick" =>
     LET nextTime == currentTime + lastOp'.delta * playbackSpeed
     IN  IF nextTime >= duration
           THEN currentTime' = duration /\ ~isPlaying'
           ELSE currentTime' = nextTime

\* C16: in every state of the player 0 <= currentTime <= duration; a frame
\* tick with delta >= 0 advances currentTime by delta x playbackSpeed, and
\* one that would reach or pass duration sets currentTime = duration and
\* isPlaying = false.
C16PlaybackClock ==
  /\ [](0 <= currentTime /\ currentTime <= duration)
  /\ [][C16Tick]_vars

C16Witness ==
  /\ lastOp.op = "tick"
  /\ duration > 0 /\ currentTime = duration /\ ~isPlaying
  /\ playbackSpeed = 2
  /\ prevTime > 0
  /\ prevTime + lastOp.delta * playbackSpeed > duration

C17Step ==
  /\ lastOp'.op = "seek" =>
       /\ currentTime' = lastOp'.value
       /\ ~isPlaying'
       /\ ~frameRequested'
  /\ (~isPlaying /\ lastOp'.op = "tick") => currentTime' = currentTime

\* C17: a seek sets currentTime to the chosen value and isPlaying to false
\* from any state and leaves no frame pending; while the player is not
\* playing (as it is from a seek until play is pressed) no frame tick
\* changes currentTime.
C17SeekPauses == [][C17Step]_vars

C17Witness ==
  /\ lastOp.op = "seek" /\ lastOp.playing
  /\ currentTime = lastOp.value
  /\ currentTime > 0 /\ currentTime < duration
  /\ prevTime # currentTime
  /\ ~isPlaying /\ ~frameRequested

(***************************************************************************)
(* The shell: App, DashboardErrorBoundary, the editor's log import and the *)
(* dashboard's analysis effect.  The App with the error boundary is the    *)
(* one in src/services/geminiService.ts:77-213.                            *)
(***************************************************************************)
\* JSON values of an uploaded file, as far as handleFileUpload and the
\* dashboard look at them
JAbsent    == [t |-> "absent"]
JNull      == [t |-> "null"]
JString(v) == [t |-> "string", v |-> v]
JArray(v)  == [t |-> "array", v |-> v]
JEvent(relativeTime) == [t |-> "event", relativeTime |-> relativeTime]

JObject(id, evs, finalText) ==
  [kind |-> "object", id |-> id, events |-> evs, finalText |-> finalText,
   startTime |-> 0, endTime |-> 10]

\* the files a user can pick: not JSON at all, JSON that is no object, and
\* objects with each of the three fields absent, degenerate or well formed;
\* an event array may hold null, before or after an event later than endTime
UploadedFiles ==
  { [kind |-> "unparsable"], [kind |-> "null"], [kind |-> "number"] }
  \cup
  { JObject(id, evs, finalText) :
      id \in {JAbsent, JNull, JString(""), JString("s1")},
      evs \in {JAbsent, JString("text"), JArray(<<>>), JArray(<<JEvent(1)>>),
               JArray(<<JNull>>), JArray(<<JEvent(20), JNull>>)},
      finalText \in {JAbsent, JNull, JString(<<"H", "i">>)} }

\* JavaScript truthiness of a JSON value
Truthy(x) == x.t \notin {"absent", "null"} /\ x # JString("")

\* the test of handleFileUpload, were a file without finalText let through
acceptsUploadAnyText(file) ==
  /\ file.kind = "object"
  /\ Truthy(file.id)
  /\ Truthy(file.events) /\ file.events.t = "array"

\* the test of handleFileUpload: JSON.parse succeeds and
\* json.id && json.events && Array.isArray(json.events)
\*   && json.finalText !== undefined
\* (reading .id of JSON null throws, which the catch turns into a rejection)
acceptsUpload(file) ==
  /\ file.kind = "object"
  /\ Truthy(file.id)
  /\ Truthy(file.events) /\ file.events.t = "array"
  /\ file.finalText # JAbsent

\* the file input of the editor's start screen, the user picking one of `files`
handleFileUploadOf(files) ==
  /\ appMounted /\ currentView = "write" /\ status = IDLE
  /\ \E file \in files :
       /\ appOp' = [op |-> "upload", file |-> file]
       /\ IF acceptsUpload(file)
            THEN handleSessionComplete(file)
            ELSE UNCHANGED <<completedSession, currentView, hasError,
                             calculating, timerPending, processData, stats,
                             timeData>>
  /\ UNCHANGED <<appMounted, exported>>
  /\ UNCHANGED <<status, text, events, startTime, lastEventTime, storage, now,
                 resumedAt, restored, steps,
                 returnedSessions, autosaveTimer>>
  /\ UNCHANGED <<playerVars, segVars>>

handleFileUpload == handleFileUploadOf(UploadedFiles)

AppFrame == UNCHANGED <<recVars, playerVars, segVars>>

\* the Write button of the sidebar, or the dashboard's onBack
navWrite ==
  /\ appMounted /\ currentView = "analyze"
  /\ currentView' = "write"
  /\ DashboardUnmount
  /\ appOp' = [op |-> "write"]
  /\ UNCHANGED <<appMounted, exported>>
  /\ AppFrame

\* the Analyze button of the sidebar, disabled without a completed session
navAnalyze ==
  /\ appMounted /\ currentView = "write" /\ completedSession # NoSession
  /\ currentView' = "analyze"
  /\ DashboardMount
  /\ appOp' = [op |-> "analyze"]
  /\ UNCHANGED <<appMounted, exported>>
  /\ AppFrame

\* calculateMetrics throws on a session: event.pauseBefore of a null element
calculateMetricsThrows(session) ==
  \E i \in 1..Len(session.events.v) : session.events.v[i] = JNull

\* the render of the dashboard once calculating is false throws: stats calls
\* finalText.trim(), and timeData reads e.relativeTime of every event up to
\* the first one later than the last bucket's threshold (endTime - startTime)
renderThrows(session) ==
  \/ session.finalText.t # "string"
  \/ \E i \in 1..Len(session.events.v) :
       /\ session.events.v[i] = JNull
       /\ \A j \in 1..(i - 1) :
            /\ session.events.v[j] # JNull
            /\ ~(session.events.v[j].relativeTime
                   > session.endTime - session.startTime)

\* String.prototype.trim and split(/\s+/) on a text
WhiteSpace == {" ", "\n"}

RECURSIVE TrimStart(_)
TrimStart(s) ==
  IF s # <<>> /\ Head(s) \in WhiteSpace THEN TrimStart(Tail(s)) ELSE s

RECURSIVE TrimEnd(_)
TrimEnd(s) ==
  IF s # <<>> /\ s[Len(s)] \in WhiteSpace
    THEN TrimEnd(SubSeq(s, 1, Len(s) - 1)) ELSE s

Trim(s) == TrimEnd(TrimStart(s))

\* the pieces between the matches of /\s+/, a match being a maximal run of
\* white space; a text without a match, the empty one too, is one piece
RECURSIVE SplitOnWhiteSpace(_, _)
SplitOnWhiteSpace(s, piece) ==
  IF s = <<>> THEN <<piece>>
  ELSE IF Head(s) \in WhiteSpace
    THEN <<piece>> \o SplitOnWhiteSpace(TrimStart(s), <<>>)
  ELSE SplitOnWhiteSpace(Tail(s), Append(piece, Head(s)))

\* Math.round of the quotient a / b of two non-negative numbers, b > 0
RoundDiv(a, b) == (2 * a + b) \div (2 * b)

\* the stats memo once calculating is false; the counts it takes from
\* processData are the subject of the pipeline's own specification
statsOf(session) ==
  LET words    == Len(SplitOnWhiteSpace(Trim(session.finalText.v), <<>>))
      elapsed  == session.endTime - session.startTime
  IN  [words |-> words,
       wpm   |-> IF elapsed > 0 THEN RoundDiv(words * 60000, elapsed) ELSE 0]

\* what the metrics are is the subject of the pipeline's own specification
metricsOf(session) == [of |-> session.events]

\* an error thrown while rendering the dashboard, were there no error
\* boundary around it: React unmounts the whole root
renderErrorUncaught == [appMounted |-> FALSE, hasError |-> FALSE]

\* an error thrown while rendering the dashboard:
\* DashboardErrorBoundary.getDerivedStateFromError shows the fallback
renderErrorCaught == [appMounted |-> TRUE, hasError |-> TRUE]

\* the effect's timer fires: try { calculateMetrics; setProcessData;
\* setCalculating(false) } catch { setCalculating(false) }, then the render
timerFire ==
  /\ appMounted /\ currentView = "analyze" /\ timerPending
  /\ timerPending' = FALSE
  /\ calculating' = FALSE
  /\ processData' = IF calculateMetricsThrows(completedSession)
                      THEN processData ELSE metricsOf(completedSession)
  /\ IF renderThrows(completedSession)
       THEN /\ appMounted' = renderErrorCaught.appMounted
            /\ hasError' = renderErrorCaught.hasError
       ELSE UNCHANGED <<appMounted, hasError>>
  /\ stats' = IF renderThrows(completedSession)
                THEN stats ELSE statsOf(completedSession)
  /\ UNCHANGED timeData
  /\ appOp' = [op |-> "timer"]
  /\ UNCHANGED <<currentView, exported>>
  /\ AppFrame

\* the dashboard's Download button
handleDownload ==
  /\ appMounted /\ currentView = "analyze" /\ ~calculating /\ ~hasError
  /\ exported' = completedSession
  /\ appOp' = [op |-> "download"]
  /\ UNCHANGED <<currentView, appMounted, hasError, calculating, timerPending,
                 processData, stats, timeData>>
  /\ AppFrame

\* the fallback's Download Emergency Log button
handleEmergencyDownload ==
  /\ appMounted /\ currentView = "analyze" /\ hasError
  /\ exported' = completedSession
  /\ appOp' = [op |-> "emergency"]
  /\ UNCHANGED <<currentView, appMounted, hasError, calculating, timerPending,
                 processData, stats, timeData>>
  /\ AppFrame

AppNext ==
  \/ handleFileUpload
  \/ navWrite
  \/ navAnalyze
  \/ timerFire
  \/ handleDownload
  \/ handleEmergencyDownload

SpecApp == Init /\ [][AppNext]_vars

(***************************************************************************)
(* Properties of the shell                                                 *)
(***************************************************************************)
\* the file parses as JSON with an id field, an events array and a finalText
\* field
HasRequiredFields(file) ==
  /\ file.kind = "object"
  /\ file.id # JAbsent
  /\ file.events.t = "array"
  /\ file.finalText # JAbsent

\* ... and its id is neither null nor the empty string
HasUsableId(file) == file.id # JNull /\ file.id # JString("")

Loaded(file) == completedSession' = file /\ currentView' = "analyze"

Rejected ==
  completedSession' = completedSession /\ currentView' = currentView

\* C18 as stated: an uploaded file becomes the completed session exactly
\* when it parses as JSON with a present id, an events array and a defined
\* finalText; any other file changes neither the completed session nor the
\* view.
C18PresentIdSuffices ==
  [][appOp'.op = "upload" =>
       IF HasRequiredFields(appOp'.file) THEN Loaded(appOp'.file)
                                           ELSE Rejected]_vars

\* C18 amended: ... exactly when it parses as JSON with an id that is
\* present and truthy (not null, not the empty string), an events array and
\* a defined finalText; any other file changes neither the completed
\* session nor the view.
C18ImportValidation ==
  [][appOp'.op = "upload" =>
       IF HasRequiredFields(appOp'.file) /\ HasUsableId(appOp'.file)
         THEN Loaded(appOp'.file)
         ELSE Rejected]_vars

C18Witness ==
  /\ appOp.op = "upload"
  /\ HasRequiredFields(appOp.file) /\ appOp.file.id = JString("")
  /\ completedSession # NoSession /\ completedSession # appOp.file
  /\ currentView = "write"

C19Step ==
  /\ (appOp'.op = "timer" /\ calculateMetricsThrows(completedSession)) =>
        /\ ~calculating'
        /\ appMounted'
        /\ processData' = processData
        /\ completedSession' = completedSession
  /\ appOp'.op \in {"download", "emergency"} =>
        /\ exported' = completedSession
        /\ completedSession' = completedSession

\* C19: when calculateMetrics throws on the session, the timer's catch
\* takes the dashboard out of the calculating state, nothing is delivered,
\* the session is unchanged, the application stays rendered, and one of the
\* two download buttons is available and exports the session as it is.
C19AnalysisFailureIsolated ==
  /\ []((appOp.op = "timer" /\ calculateMetricsThrows(completedSession)) =>
          ENABLED (handleDownload \/ handleEmergencyDownload))
  /\ [][C19Step]_vars

C19Witness ==
  /\ appOp.op = "emergency"
  /\ calculateMetricsThrows(completedSession)
  /\ ~calculating /\ hasError /\ processData = NoRun
  /\ exported = completedSession

(***************************************************************************)
(* Autosave staleness: the page is opened over whatever localStorage holds *)
(***************************************************************************)
AgeMargin    == 2    \* stored snapshots are up to AgeMargin ms short of StaleAfter old
RestoreTries == 2    \* restoreSession is called at most RestoreTries times

\* what saveToStorage wrote at time ts for a session started 1 ms earlier
\* in which `txt` (empty or one character) was typed
SnapshotAt(ts, st, txt) ==
  LET r == IF txt = <<>>
             THEN [events |-> <<>>, lastEventTime |-> ts - 1]
             ELSE logEvent(RECORDING, <<>>, ts - 1, ts - 1, -1,
                           [type |-> "insert", position |-> 0, content |-> txt,
                            actionDetails |-> ""], ts)
  IN  [text |-> txt, status |-> st, startTime |-> ts - 1,
       events |-> r.events, lastEventTime |-> r.lastEventTime,
       timestamp |-> ts]

WithoutTimestamp(snapshot) ==
  [f \in DOMAIN snapshot \ {"timestamp"} |-> snapshot[f]]

\* written when the page is opened, or StaleAfter - j ms before that
SaveTimestamps == {Epoch} \cup {Epoch - StaleAfter + j : j \in 0..AgeMargin}

StoredSnapshots ==
  {SnapshotAt(ts, st, txt) : ts \in SaveTimestamps, st \in {RECORDING, PAUSED},
                             txt \in TextsUpTo(1)}

StoredValues ==
  {NoSave, Unparsable, StoredNull} \cup StoredSnapshots
    \cup {WithoutTimestamp(SnapshotAt(Epoch, RECORDING, <<>>))}

SaveInit ==
  /\ HookFresh(status, text, events, startTime, lastEventTime)
  /\ storage \in StoredValues
  /\ now = Epoch
  /\ completedSession = NoSession
  /\ resumedAt = -1
  /\ restored = FALSE
  /\ steps = <<>>
  /\ returnedSessions = <<>>
  /\ autosaveTimer = NotTimed
  /\ PlayerIdle /\ SegIdle /\ AppIdle

\* one call of the hook's restoreSession, with what checkSavedSession gave it
restoreSessionCall ==
  /\ status = IDLE
  /\ Len(steps) < RestoreTries
  /\ steps' = Append(steps, [saved |-> checkSavedSession, at |-> now])
  /\ UNCHANGED <<returnedSessions, autosaveTimer>>
  /\ IF checkSavedSession # NoSave
       THEN restoreSaved(checkSavedSession)
       ELSE UNCHANGED <<status, text, events, startTime, lastEventTime,
                        resumedAt, restored>>
  /\ UNCHANGED <<storage, now, completedSession>>
  /\ UNCHANGED <<playerVars, segVars, appVars>>

SaveNext ==
  \/ Tick
  \/ restoreSessionCall
  \/ resumeSession
  \/ autosave
  \/ remount

SpecSave == SaveInit /\ [][SaveNext]_vars

IsSnapshot(sto) == "timestamp" \in DOMAIN sto

FreshSnapshot == IsSnapshot(storage) /\ now - storage.timestamp < StaleAfter

C20Step ==
  steps' # steps =>
    LET saved == steps'[Len(steps')].saved
    IN  /\ saved # NoSave => FreshSnapshot /\ saved = storage
        /\ ~FreshSnapshot =>
             /\ saved = NoSave
             /\ UNCHANGED <<status, text, events, startTime, lastEventTime,
                            storage, now, completedSession, resumedAt,
                            restored>>

\* C20: checkSavedSession returns the stored snapshot only if its timestamp
\* is less than 48 hours before the current time; a snapshot aged 48 hours or
\* more, a missing snapshot or an unparsable one yields null, and
\* restoreSession then changes nothing.
C20AutosaveStaleness == [][C20Step]_vars

\* restoreSession was called on a snapshot aged exactly 48 hours, which had
\* still been fresh when the page was opened, and the hook stayed as it was
C20Witness ==
  /\ steps # <<>>
  /\ steps[Len(steps)].saved = NoSave
  /\ IsSnapshot(storage)
  /\ steps[Len(steps)].at - storage.timestamp = StaleAfter
  /\ Epoch - storage.timestamp < StaleAfter
  /\ status = IDLE /\ text = <<>> /\ events = <<>>

(***************************************************************************)
(* Diff Capture on the "Hello world" texts                                 *)
(***************************************************************************)
HelloWorld      == <<"H", "e", "l", "l", "o", " ", "w", "o", "r", "l", "d">>
There           == <<"t", "h", "e", "r", "e", " ">>
HelloThereWorld == SubSeq(HelloWorld, 1, 6) \o There \o SubSeq(HelloWorld, 7, 11)

\* the textarea's content before and after one change
HelloTexts ==
  {<<>>, HelloWorld, HelloThereWorld, SubSeq(HelloWorld, 1, 5),
   SubSeq(HelloWorld, 1, 6), SubSeq(HelloWorld, 1, 10),
   SubSeq(HelloThereWorld, 1, 11), SubSeq(HelloThereWorld, 1, 12),
   SubSeq(HelloWorld, 7, 11), HelloWorld \o <<"!">>}

HelloInit ==
  /\ status = RECORDING
  /\ text \in HelloTexts
  /\ events = <<>>
  /\ startTime = Epoch /\ lastEventTime = Epoch /\ now = Epoch
  /\ storage = NoSave /\ completedSession = NoSession
  /\ resumedAt = -1 /\ restored = FALSE /\ steps = <<>>
  /\ returnedSessions = <<>>
  /\ autosaveTimer = NotTimed
  /\ PlayerIdle /\ SegIdle /\ AppIdle

HelloChange ==
  /\ \E newText \in HelloTexts, d \in 0..1 :
        handleChangeCore(newText, d, 2)
  /\ UNCHANGED <<status, startTime, storage, completedSession, restored, steps,
                 returnedSessions, autosaveTimer>>
  /\ UNCHANGED <<playerVars, segVars, appVars>>

HelloNext == HelloChange \/ Tick

SpecHello == HelloInit /\ [][HelloNext]_vars

C21Step ==
  text = HelloWorld /\ text' = HelloThereWorld =>
    /\ Len(events') = Len(events) + 1
    /\ SubSeq(events', 1, Len(events)) = events
    /\ LET e == events'[Len(events')]
       IN  /\ e.type = "paste"
           /\ e.position = 6
           /\ e.content = There

\* C21: for old = "Hello world" and new = "Hello there world", handleChange
\* emits no delete event and exactly one insert-type event (type paste) at
\* position 6 whose content is "there ".
C21HelloThereWorld == [][C21Step]_vars

\* the change was made and logged
C21Witness ==
  /\ text = HelloThereWorld
  /\ Len(events) = 1
  /\ events[1].type = "paste" /\ events[1].content = There
  /\ events[1].position = 6

(***************************************************************************)
(* The dashboard's word count, over imported sessions of any final text    *)
(***************************************************************************)
StatsLen == 4        \* longest finalText of a session given to the word count

StatsTexts == UNION {[1..k -> {"a"} \cup WhiteSpace] : k \in 0..StatsLen}

StatsFiles ==
  {JObject(JString("s1"), JArray(<<>>), JString(txt)) : txt \in StatsTexts}

StatsNext ==
  \/ handleFileUploadOf(StatsFiles)
  \/ navWrite
  \/ navAnalyze
  \/ timerFire

SpecStats == Init /\ [][StatsNext]_vars

\* the number of maximal runs of characters that are not white space
NonWhiteRuns(s) ==
  Cardinality({i \in 1..Len(s) :
                 /\ s[i] \notin WhiteSpace
                 /\ (i = 1 \/ s[i - 1] \in WhiteSpace)})

StatsShown ==
  currentView = "analyze" /\ appMounted /\ ~hasError /\ ~calculating

\* C22: for every finalText the reported word count equals the number of
\* maximal runs of non-whitespace characters in it; in particular it is 0 for
\* an empty or whitespace-only finalText.
C22WordCount ==
  StatsShown => stats.words = NonWhiteRuns(completedSession.finalText.v)

(***************************************************************************)
(* The recorder hook on its own: a component that keeps it mounted and     *)
(* calls its operations in any status, each call followed by a render      *)
(***************************************************************************)
MaxStops == 1        \* the first MaxStops sessions stopSession returns are followed

\* the texts the component types: one letter, Date.now() standing still
HookTexts == UNION {[1..k -> {"a"}] : k \in 0..MaxLen}

\* what the sessions returned so far hold after a call that left
\* eventsRef.current with the content evs: a session that shares the array
\* sees a push to it; once eventsRef.current is assigned another array
\* (sameArray false) the session keeps the old one
Aliasing(evs, sameArray) ==
  [i \in DOMAIN returnedSessions |->
     LET r == returnedSessions[i]
     IN  IF ~r.aliased THEN r
         ELSE IF sameArray THEN [r EXCEPT !.session.events = evs]
         ELSE [r EXCEPT !.aliased = FALSE]]

HookFrame ==
  /\ UNCHANGED <<completedSession, restored, steps>>
  /\ UNCHANGED <<playerVars, segVars, appVars>>

\* startSession(name): eventsRef.current = [] is a new array
hookStartSession ==
  /\ storage' = NoSave
  /\ text' = <<>>
  /\ startTime' = now
  /\ status' = RECORDING
  /\ LET r == logEvent(status, <<>>, now, now, -1,
                       [type |-> "focus", position |-> 0, content |-> <<>>,
                        actionDetails |-> ""], now)
     IN  /\ events' = r.events
         /\ lastEventTime' = r.lastEventTime
         /\ resumedAt' = r.resumedAt
  /\ returnedSessions' = Aliasing(events', FALSE)
  /\ UNCHANGED autosaveTimer
  /\ UNCHANGED now
  /\ HookFrame

\* restoreSession(): eventsRef.current = saved.events is the parsed array
hookRestoreSession ==
  /\ checkSavedSession # NoSave
  /\ restoreSaved(checkSavedSession)
  /\ returnedSessions' = Aliasing(events', FALSE)
  /\ UNCHANGED autosaveTimer
  /\ UNCHANGED <<storage, now, completedSession, steps>>
  /\ UNCHANGED <<playerVars, segVars, appVars>>

\* stopSession()
hookStopSession ==
  /\ status # IDLE
  /\ status' = stopSessionStatus
  /\ storage' = saveToStorage(status, text, storage)
  /\ returnedSessions' =
       IF Len(returnedSessions) < MaxStops
         THEN Append(returnedSessions, Returned(stopSessionResult(now)))
         ELSE returnedSessions
  /\ UNCHANGED autosaveTimer
  /\ UNCHANGED <<text, events, startTime, lastEventTime, now, resumedAt>>
  /\ HookFrame

\* the editor's onChange: logEvent pushes to eventsRef.current, then setText
hookChange ==
  /\ \E newText \in HookTexts : handleChangeCore(newText, 0, MaxEvents)
  /\ returnedSessions' = Aliasing(events', TRUE)
  /\ UNCHANGED autosaveTimer
  /\ UNCHANGED <<status, startTime, storage>>
  /\ HookFrame

\* logEvent with a key press or a blur (a focus is logged as a blur is)
hookLogEvent ==
  /\ \E partialEvent \in
          {[type |-> "navigation", position |-> 0, content |-> <<>>,
            actionDetails |-> "ArrowLeft"],
           [type |-> "blur", position |-> -1, content |-> <<"Window">>,
            actionDetails |-> ""]} :
       LET r == logEvent(status, events, startTime, lastEventTime, resumedAt,
                         partialEvent, now)
       IN  /\ Len(r.events) <= MaxEvents
           /\ r.events # events
           /\ events' = r.events
           /\ lastEventTime' = r.lastEventTime
           /\ resumedAt' = r.resumedAt
  /\ returnedSessions' = Aliasing(events', TRUE)
  /\ UNCHANGED autosaveTimer
  /\ UNCHANGED <<status, text, startTime, storage, now>>
  /\ HookFrame

HookNext ==
  \/ hookStartSession
  \/ hookRestoreSession
  \/ hookStopSession
  \/ hookChange
  \/ hookLogEvent
  \/ pauseSession
  \/ resumeSession

SpecHook == Init /\ [][HookNext]_vars

C23Step ==
  \A i \in 1..Len(returnedSessions) :
    returnedSessions'[i].session.events = returnedSessions[i].session.events

\* C23: once stopSession has returned a session, no later recorder operation
\* adds, removes or changes an element of that session's events sequence,
\* although the session shares its events array with the recorder.
C23ReturnedLogIsStable == [][C23Step]_vars

\* a session with a log was returned, still shares its array with the hook,
\* and the text was changed after that
C23Witness ==
  /\ status = FINISHED
  /\ \E i \in 1..Len(returnedSessions) :
       /\ returnedSessions[i].aliased
       /\ returnedSessions[i].session.events # <<>>
       /\ returnedSessions[i].session.events = events
       /\ returnedSessions[i].session.finalText # text

\* the event the loop consumed last
PrevSegEvent == segEvents[segIdx]

AdjacentDeletes ==
  /\ segIdx' = segIdx + 1 /\ segIdx >= 1
  /\ PrevSegEvent.type = "delete" /\ SegEvent.type = "delete"

\* the delete joins the group of the delete before it
SameDeletionGroup ==
  /\ deletionBuffer # <<>>
  /\ deletionBuffer[Len(deletionBuffer)] = PrevSegEvent
  /\ deletionBuffer' = Append(deletionBuffer, SegEvent)
  /\ deletionGroups' = deletionGroups

\* the group of the delete before it is emitted and the delete starts another
OtherDeletionGroup ==
  /\ deletionBuffer' = <<SegEvent>>
  /\ Len(deletionGroups') = Len(deletionGroups) + 1
  /\ deletionGroups'[Len(deletionGroups')].count = Len(deletionBuffer)

\* C24 as stated: adjacent deletes at most 2000 ms apart share a group
C24Within2000 ==
  [][AdjacentDeletes =>
       IF SegEvent.timestamp - PrevSegEvent.timestamp <= 2000
         THEN SameDeletionGroup ELSE OtherDeletionGroup]_vars

\* C24: two delete events that are adjacent in the log are placed in the
\* same DeletionGroup whenever the later event's absolute timestamp is less
\* than 2000 ms after the earlier one's, whatever their positions, and are
\* placed in different groups when the difference is 2000 ms or more.
C24DeletionSequentiality ==
  [][AdjacentDeletes =>
       IF SegEvent.timestamp - PrevSegEvent.timestamp < 2000
         THEN SameDeletionGroup ELSE OtherDeletionGroup]_vars

\* "abc" removed by Delete keys at one position: the second 1999 ms after the
\* first, in its group; the third 2000 ms later, in a group of its own
C24Witness ==
  /\ segDone /\ Len(segEvents) = 6
  /\ \A i \in 4..6 : segEvents[i].type = "delete" /\ segEvents[i].position = 0
  /\ segEvents[5].timestamp - segEvents[4].timestamp = 1999
  /\ segEvents[6].timestamp - segEvents[5].timestamp = 2000
  /\ Len(deletionGroups) = 2
  /\ deletionGroups[1].count = 2 /\ deletionGroups[2].count = 1

\* events i..j of the log are Backspace keys: each removes the one character
\* before the one removed just before, less than 2000 ms after it
BackspaceRun(evs, i, j) ==
  /\ \A n \in i..j : evs[n].type = "delete" /\ Len(evs[n].content) = 1
  /\ \A n \in (i + 1)..j :
       /\ evs[n].position = evs[n - 1].position - 1
       /\ evs[n].timestamp - evs[n - 1].timestamp < 2000

\* events i.. of the log type text at position pos, each where the one
\* before ended, the first within the replacement window after event i - 1
RetypedAt(evs, i, pos) ==
  /\ i <= Len(evs)
  /\ \A n \in i..Len(evs) : evs[n].type \in {"insert", "paste"}
  /\ evs[i].position = pos
  /\ evs[i].timestamp - evs[i - 1].timestamp < 5000
  /\ \A n \in (i + 1)..Len(evs) : Contiguous(evs[n - 1], evs[n])

\* text is typed, then k >= 2 characters are backspaced (events i..j) and
\* text is retyped where the removed text began
IsBackspaceRetype(evs, i, j) ==
  /\ 1 < i /\ i < j /\ j < Len(evs)
  /\ \A n \in 1..(i - 1) : evs[n].type = "insert"
  /\ BackspaceRun(evs, i, j)
  /\ RetypedAt(evs, j + 1, evs[j].position)

\* C25: when k >= 2 characters are removed by consecutive backspaces and the
\* writer immediately retypes text at the position where the deleted text
\* used to start, within the replacement window, the resulting DeletionGroup
\* carries the retyped text as its replacement.
C25ReplacementAfterBackspaces ==
  segDone =>
    \A i, j \in 1..Len(segEvents) :
      IsBackspaceRetype(segEvents, i, j) =>
        /\ Len(deletionGroups) = 1
        /\ deletionGroups[1].count = j - i + 1
        /\ deletionGroups[1].hasReplacement
        /\ deletionGroups[1].replacement
             = JoinContents(SubSeq(segEvents, j + 1, Len(segEvents)))

\* the index of the last focus, blur or navigation event among the first n
\* events of the log, 0 when there is none
RECURSIVE LastBoundary(_, _)
LastBoundary(evs, n) ==
  IF n = 0 THEN 0
  ELSE IF evs[n].type \notin TextTypes THEN n
  ELSE LastBoundary(evs, n - 1)

\* every event of the buffer was consumed after the last boundary event
InSegment(buffer) ==
  \A k \in 1..Len(buffer) :
    \E j \in (LastBoundary(segEvents, segIdx) + 1)..segIdx :
      segEvents[j] = buffer[k]

C26Step ==
  (segIdx' = segIdx + 1 /\ SegEvent.type \notin TextTypes) =>
     /\ deletionBuffer' = <<>> /\ insertionBuffer' = <<>>
     /\ replacementBuffer' = <<>>
     /\ lastDeletionGroup' = 0 /\ ~isTrackingReplacement'
     /\ Len(deletionGroups')
          = Len(deletionGroups) + (IF deletionBuffer = <<>> THEN 0 ELSE 1)
     /\ Len(insertionGroups')
          = Len(insertionGroups) + (IF insertionBuffer = <<>> THEN 0 ELSE 1)

\* C26: a focus, blur or navigation event flushes the deletion, insertion
\* and replacement buffers, so two delete events (or two inserts) that have
\* such an event between them in the log never belong to the same
\* DeletionGroup (or InsertionGroup, or replacement), even when they are
\* within 2000 ms or contiguous.
C26SegmentBoundaries ==
  /\ [](InSegment(deletionBuffer) /\ InSegment(insertionBuffer)
        /\ InSegment(replacementBuffer))
  /\ [][C26Step]_vars

\* "x" and "y" typed side by side with two arrow keys in between, then
\* removed 450 ms apart with a blur and a focus in between: two insertion
\* groups and two deletion groups
C26Witness ==
  /\ segDone /\ Len(segEvents) = 11
  /\ segEvents[4].type = "insert" /\ segEvents[5].type = "navigation"
  /\ segEvents[7].type = "insert" /\ Contiguous(segEvents[4], segEvents[7])
  /\ segEvents[8].type = "delete" /\ segEvents[9].type = "blur"
  /\ segEvents[11].type = "delete"
  /\ segEvents[11].timestamp - segEvents[8].timestamp < 2000
  /\ Len(insertionGroups) = 2 /\ Len(deletionGroups) = 2

C27Step ==
  segIdx' = segIdx + 1 =>
    /\ insertionBuffer' \notin {<<>>, insertionBuffer} =>
         /\ SegEvent.type \in {"insert", "paste"}
         /\ SegEvent.position < Len(currentText)
         /\ insertionBuffer' \in {Append(insertionBuffer, SegEvent), <<SegEvent>>}
    /\ (SegEvent.type \in {"insert", "paste"}
        /\ SegEvent.position >= Len(currentText)) =>
         /\ insertionBuffer' = <<>>
         /\ Len(insertionGroups')
              = Len(insertionGroups) + (IF insertionBuffer = <<>> THEN 0 ELSE 1)
    /\ Len(insertionGroups') > Len(insertionGroups) =>
         /\ insertionBuffer # <<>>
         /\ Len(insertionGroups') = Len(insertionGroups) + 1
         /\ insertionGroups'[Len(insertionGroups')].time
              = insertionBuffer[1].relativeTime

\* C27: every event contained in any emitted InsertionGroup is an insert or
\* paste whose position was strictly less than the reconstructed buffer
\* length at the moment it was processed; an insert at the end of the
\* document (position >= buffer length) is never put in a group and ends the
\* pending insertion group.
C27EndInsertsNotGrouped ==
  /\ [](\A k \in 1..Len(insertionBuffer) :
          insertionBuffer[k].type \in {"insert", "paste"})
  /\ [][C27Step]_vars

\* an insert at the end of the text has just closed the group of the insert
\* that came right before it
C27Witness ==
  /\ segIdx >= 2
  /\ segEvents[segIdx].type = "insert"
  /\ segEvents[segIdx].position + Len(segEvents[segIdx].content) = Len(currentText)
  /\ segEvents[segIdx - 1].type = "insert"
  /\ segEvents[segIdx - 1].position < Len(currentText) - 2
  /\ insertionBuffer = <<>>
  /\ Len(insertionGroups) >= 1
  /\ insertionGroups[Len(insertionGroups)].time = segEvents[segIdx - 1].relativeTime

\* the insert or paste about to be processed lies inside the text and is not
\* taken into a replacement
NonLinearInsertStep ==
  /\ segIdx' = segIdx + 1
  /\ SegEvent.type \in {"insert", "paste"}
  /\ replacementBuffer' # Append(replacementBuffer, SegEvent)
  /\ SegEvent.position < Len(currentText)

\* C28 as stated: within the pending insertion group each event after the
\* first has position equal to the previous event's position plus the length
\* of the previous event's content, and a non-linear insert that is not
\* contiguous in that sense closes the group and starts a new one.
C28ContentLength ==
  /\ [](\A k \in 2..Len(insertionBuffer) :
          insertionBuffer[k].position
            = insertionBuffer[k - 1].position
              + Len(insertionBuffer[k - 1].content))
  /\ [][(/\ NonLinearInsertStep
         /\ insertionBuffer # <<>>
         /\ SegEvent.position
              # insertionBuffer[Len(insertionBuffer)].position
                + Len(insertionBuffer[Len(insertionBuffer)].content))
        => /\ insertionBuffer' = <<SegEvent>>
           /\ Len(insertionGroups') = Len(insertionGroups) + 1]_vars

\* C28 amended: within the pending insertion group each event after the
\* first has position equal to the previous event's position plus the length
\* of the previous event's content, an absent or empty content counting as
\* length 1; a non-linear insert that is not contiguous in that sense closes
\* the group (emitted with exactly the events gathered so far) and starts a
\* new one.
C28InsertionSequentiality ==
  /\ [](\A k \in 2..Len(insertionBuffer) :
          Contiguous(insertionBuffer[k - 1], insertionBuffer[k]))
  /\ [][(/\ NonLinearInsertStep
         /\ insertionBuffer # <<>>
         /\ ~Contiguous(insertionBuffer[Len(insertionBuffer)], SegEvent))
        => /\ insertionBuffer' = <<SegEvent>>
           /\ Len(insertionGroups') = Len(insertionGroups) + 1
           /\ insertionGroups'[Len(insertionGroups')].count
                = Len(insertionBuffer)]_vars

\* an imported insert without content at position 0 and the insert at
\* position 1 after it are pending in one group
C28Witness ==
  /\ Len(insertionBuffer) = 2
  /\ insertionBuffer[1].content = <<>>
  /\ insertionBuffer[2].position = insertionBuffer[1].position + 1

\* C29: every InsertionGroup returned by the pipeline has level Paragraph
\* iff its combined content contains a line break or is longer than 80
\* characters, and Sentence otherwise (80 characters without a line break is
\* Sentence, 81 is Paragraph), whatever level was assigned when the group
\* was flushed.
C29InsertionLevel ==
  segDone =>
    \A i \in 1..Len(insertionGroups) :
      LET content == insertionGroups[i].content
          long    == (\E k \in 1..Len(content) : content[k] = "\n")
                       \/ Len(content) >= 81
      IN  insertionGroups[i].level = IF long THEN "Paragraph" ELSE "Sentence"

\* two contiguous pastes of 40 characters each: the group of 80 characters
\* is returned as Sentence
C29Witness ==
  /\ segDone
  /\ Len(insertionGroups) = 1
  /\ insertionGroups[1].count = 2
  /\ Len(insertionGroups[1].content) = 80
  /\ insertionGroups[1].level = "Sentence"

\* the location type and the context string of a pause that begins on the
\* text `buf`
LocationTypeOf(buf) ==
  IF buf = <<>> THEN "Start"
  ELSE CASE buf[Len(buf)] = "\n" -> "Paragraph"
         [] buf[Len(buf)] \in {".", "?", "!"} -> "Sentence"
         [] buf[Len(buf)] = " " -> "Word"
         [] OTHER -> "Mid-word"

ContextOf(buf) ==
  IF buf = <<>> THEN <<"(Start of doc)">>
  ELSE LET from == IF Len(buf) > 20 THEN Len(buf) - 19 ELSE 1
       IN  [i \in 1..(Len(buf) - from + 1) |->
              IF buf[from + i - 1] = "\n" THEN "<nl>" ELSE buf[from + i - 1]]

C30Step ==
  (segIdx' = segIdx + 1 /\ Len(pauses') > Len(pauses)) =>
     /\ Len(pauses') = Len(pauses) + 1
     /\ pauses'[Len(pauses')].locationType = LocationTypeOf(currentText)
     /\ pauses'[Len(pauses')].context = ContextOf(currentText)

\* C30: each PauseInfo is computed from the reconstructed buffer as it is
\* before the pausing event's own text change is applied; its locationType
\* is Start iff that buffer is empty, otherwise Paragraph iff its last
\* character is a line break, Sentence iff it is '.', '?' or '!', Word iff
\* it is a space, and Mid-word in every other case.
C30PauseContext == [][C30Step]_vars

\* "." typed, a pause, then "a": the pause is a Sentence pause although the
\* text now ends in "a"
C30Witness ==
  /\ segIdx = 2
  /\ currentText = <<".", "a">>
  /\ Len(pauses) = 2
  /\ pauses[1].locationType = "Start"
  /\ pauses[2].locationType = "Sentence"
  /\ pauses[2].context = <<".">>

\* the log is sorted by relativeTime (ties allowed)
TimeSorted(evs) ==
  \A i \in 1..(Len(evs) - 1) : evs[i].relativeTime <= evs[i + 1].relativeTime

\* the replay fold of the text events among the first k events of the log
ReplayFold(evs, k) ==
  IF k = 0 THEN <<>>
  ELSE reconstructTextAtTime(SubSeq(evs, 1, k), evs[k].relativeTime)

\* C31: for every time-sorted log, after the pipeline has consumed the first
\* k events its buffer equals the replay fold of the text events among those
\* k, and after it has consumed all events its buffer equals
\* reconstructTextAtTime(t) for every t >= the last event's relativeTime.
C31PipelineAgreesWithReplay ==
  TimeSorted(segEvents) =>
    /\ currentText = ReplayFold(segEvents, segIdx)
    /\ (segIdx = Len(segEvents) /\ segIdx > 0) =>
         \A d \in {0, 1, KeyGap, PauseGap} :
           currentText
             = reconstructTextAtTime(segEvents,
                                     segEvents[segIdx].relativeTime + d)

\* a recorded log with a selection delete followed by a Backspace has been
\* consumed to its end and the text is not empty
C31Witness ==
  /\ segDone /\ segIdx = Len(segEvents)
  /\ TimeSorted(segEvents)
  /\ \E i \in 1..Len(segEvents) :
       segEvents[i].type = "delete" /\ Len(segEvents[i].content) > 1
  /\ segEvents[Len(segEvents)].type = "delete"
  /\ Len(segEvents[Len(segEvents)].content) = 1
  /\ currentText # <<>>

RECURSIVE SumOfCounts(_)
SumOfCounts(groups) ==
  IF groups = <<>> THEN 0
  ELSE Head(groups).count + SumOfCounts(Tail(groups))

\* the delete events among the first n events of the log
DeletesAmong(evs, n) ==
  SelectSeq(SubSeq(evs, 1, n), LAMBDA e : e.type = "delete")

\* C32: each delete event belongs to exactly one emitted DeletionGroup or,
\* while the stream is being read, to the pending buffer: the sum of count
\* over all deletion groups plus the length of the pending buffer equals the
\* number of delete events consumed, the pending buffer holds the last of
\* them in log order, and at the end of the stream no deletion is left
\* pending, so the counts sum to the number of delete events in the log.
C32DeletionGroupsPartition ==
  LET deletes == DeletesAmong(segEvents, segIdx)
      grouped == SumOfCounts(deletionGroups)
  IN  /\ grouped + Len(deletionBuffer) = Len(deletes)
      /\ deletionBuffer = SubSeq(deletes, grouped + 1, Len(deletes))
      /\ \A i \in 1..Len(deletionGroups) : deletionGroups[i].count >= 1
      /\ segDone =>
           /\ deletionBuffer = <<>>
           /\ grouped = Len(DeletesAmong(segEvents, Len(segEvents)))

\* a log that ends in a delete, read to its end: its deletes are in two
\* groups or more
C32Witness ==
  /\ segDone
  /\ segEvents[Len(segEvents)].type = "delete"
  /\ Len(deletionGroups) >= 2
  /\ SumOfCounts(deletionGroups) >= 3
  /\ \E i \in 1..Len(deletionGroups) : deletionGroups[i].count >= 2

(***************************************************************************)
(* Playback left to itself: the user may seek and choose a speed, presses  *)
(* play once and does nothing more; animation frames keep coming, each a   *)
(* positive time after the one before                                      *)
(***************************************************************************)
Played == lastOp.op \in {"play", "tick", "effect"}

beforePlay == ~Played /\ (handlePlayPause \/ seek \/ setPlaybackSpeed)

\* a frame whose timestamp is later than the previous one's
frameTickForward == frameTick /\ lastOp'.delta > 0

PlaybackNext == beforePlay \/ frameTickForward \/ frameEffect

\* the browser runs a requested frame callback and React runs a pending
\* effect
SpecPlayback ==
  /\ ClockInit /\ [][PlaybackNext]_vars
  /\ WF_vars(frameTickForward) /\ WF_vars(frameEffect)

PlaybackStopped ==
  currentTime = duration /\ ~isPlaying /\ ~frameRequested

\* C33: if play is pressed on a session with duration >= 0 and no further
\* user action occurs, then under fair frame ticks with strictly positive
\* delta the player eventually reaches currentTime = duration with
\* isPlaying = false, and no tick is scheduled to run after that.
C33PlaybackTerminates == Played ~> []PlaybackStopped

\* play was pressed at time 0 of a session of positive duration, and the
\* effect that follows the stopping frame has cancelled the pending frame
C33Witness ==
  /\ duration > 0
  /\ lastOp.op = "effect"
  /\ prevTime < duration
  /\ PlaybackStopped

(***************************************************************************)
(* The recorder's handlers called in every status: the guard of each       *)
(* handler is part of the call, and `steps` keeps the last call made       *)
(***************************************************************************)
\* the record of a call of handler `op`; `turn` tells two calls in a row apart
Call(op) ==
  << [op |-> op, status |-> status,
      turn |-> IF steps = <<>> THEN 0 ELSE 1 - steps[1].turn] >>

CallFrame ==
  /\ UNCHANGED <<completedSession, restored, returnedSessions, autosaveTimer>>
  /\ UNCHANGED <<playerVars, segVars, appVars>>

\* WritingEditor.handleChange
callHandleChange ==
  /\ \E newText \in HookTexts : handleChangeCore(newText, 0, MaxEvents)
  /\ steps' = Call("change")
  /\ UNCHANGED <<status, startTime, storage>>
  /\ CallFrame

\* WritingEditor.handleKeyDown with an arrow key
callHandleKeyDown ==
  /\ LET r == IF status # RECORDING
                THEN [events |-> events, lastEventTime |-> lastEventTime,
                      resumedAt |-> resumedAt]
                ELSE logEvent(status, events, startTime, lastEventTime,
                              resumedAt,
                              [type |-> "navigation", position |-> Len(text),
                               content |-> <<>>,
                               actionDetails |-> "ArrowLeft"], now)
     IN  /\ Len(r.events) <= MaxEvents
         /\ events' = r.events
         /\ lastEventTime' = r.lastEventTime
         /\ resumedAt' = r.resumedAt
  /\ steps' = Call("key")
  /\ UNCHANGED <<status, text, startTime, storage, now>>
  /\ CallFrame

\* handleFocus / handleBlur, were they to hand the event to logEvent in
\* every status
callHandleFocusBlurUnguarded(kind) ==
  /\ LET r == logEvent(status, events, startTime, lastEventTime, resumedAt,
                       [type |-> kind, position |-> -1,
                        content |-> <<"Window">>, actionDetails |-> ""], now)
     IN  /\ Len(r.events) <= MaxEvents
         /\ events' = r.events
         /\ lastEventTime' = r.lastEventTime
         /\ resumedAt' = r.resumedAt
  /\ steps' = Call(kind)
  /\ UNCHANGED <<status, text, startTime, storage, now>>
  /\ CallFrame

\* handleFocus / handleBlur
callHandleFocusBlur(kind) ==
  /\ LET r == IF status = RECORDING
                THEN logEvent(status, events, startTime, lastEventTime,
                              resumedAt,
                              [type |-> kind, position |-> -1,
                               content |-> <<"Window">>,
                               actionDetails |-> ""], now)
                ELSE [events |-> events, lastEventTime |-> lastEventTime,
                      resumedAt |-> resumedAt]
     IN  /\ Len(r.events) <= MaxEvents
         /\ events' = r.events
         /\ lastEventTime' = r.lastEventTime
         /\ resumedAt' = r.resumedAt
  /\ steps' = Call(kind)
  /\ UNCHANGED <<status, text, startTime, storage, now>>
  /\ CallFrame

callHandleFocus == callHandleFocusBlur("focus")

callHandleBlur == callHandleFocusBlur("blur")

\* pauseSession()
callPauseSession ==
  /\ IF status = RECORDING
       THEN /\ status' = PAUSED
            /\ storage' = saveToStorage(status, text, storage)
       ELSE UNCHANGED <<status, storage>>
  /\ steps' = Call("pause")
  /\ UNCHANGED <<text, events, startTime, lastEventTime, now, resumedAt>>
  /\ CallFrame

\* resumeSession()
callResumeSession ==
  /\ IF status = PAUSED
       THEN /\ lastEventTime' = resumeLastEventTime
            /\ status' = RECORDING
            /\ resumedAt' = now
       ELSE UNCHANGED <<lastEventTime, status, resumedAt>>
  /\ steps' = Call("resume")
  /\ UNCHANGED <<text, events, startTime, storage, now>>
  /\ CallFrame

\* startSession(name)
callStartSession ==
  /\ storage' = NoSave
  /\ text' = <<>>
  /\ startTime' = now
  /\ status' = RECORDING
  /\ LET r == logEvent(status, <<>>, now, now, -1,
                       [type |-> "focus", position |-> 0, content |-> <<>>,
                        actionDetails |-> ""], now)
     IN  /\ events' = r.events
         /\ lastEventTime' = r.lastEventTime
         /\ resumedAt' = r.resumedAt
  /\ steps' = Call("start")
  /\ UNCHANGED now
  /\ CallFrame

\* stopSession()
callStopSession ==
  /\ status # IDLE
  /\ status' = stopSessionStatus
  /\ storage' = saveToStorage(status, text, storage)
  /\ steps' = Call("stop")
  /\ UNCHANGED <<text, events, startTime, lastEventTime, now, resumedAt>>
  /\ CallFrame

CallsNext ==
  \/ Tick
  \/ callHandleChange
  \/ callHandleKeyDown
  \/ callHandleFocus
  \/ callHandleBlur
  \/ callPauseSession
  \/ callResumeSession
  \/ callStartSession
  \/ callStopSession

SpecCalls == Init /\ [][CallsNext]_vars

LastCall == steps'[1]

RecorderUnchanged ==
  UNCHANGED <<status, text, events, startTime, lastEventTime, storage>>

C34Step ==
  steps' # steps =>
    /\ (LastCall.op \in {"change", "key", "focus", "blur"}
        /\ status \in {IDLE, PAUSED, FINISHED})
       => /\ events' = events
          /\ UNCHANGED <<status, startTime, lastEventTime, storage>>
    /\ (LastCall.op = "pause" /\ status # RECORDING) => RecorderUnchanged
    /\ (LastCall.op = "resume" /\ status # PAUSED) => RecorderUnchanged
    /\ (LastCall.op = "pause" /\ status = RECORDING) => status' = PAUSED
    /\ (LastCall.op = "resume" /\ status = PAUSED) => status' = RECORDING

\* C34: while the recorder status is IDLE, PAUSED or FINISHED, a text
\* change, arrow-key press, window focus or window blur leaves the event log
\* unchanged (length and contents), and pauseSession has an effect only from
\* RECORDING and resumeSession only from PAUSED.
C34LoggedOnlyWhileRecording == [][C34Step]_vars

\* a window blur while PAUSED, on a session that has a log
C34Witness ==
  /\ steps # <<>>
  /\ steps[1].op = "blur" /\ steps[1].status = PAUSED
  /\ status = PAUSED
  /\ Len(events) >= 1

\* C35: startSession, called from the IDLE state, resets the text to empty
\* and the log to empty, sets the status to RECORDING, and appends an
\* initial focus event at position 0, so that immediately after startSession
\* the log contains exactly that one event.
C35StartSessionLogsFocus ==
  [][(status = IDLE /\ status' = RECORDING) =>
       /\ text' = <<>>
       /\ Len(events') = 1
       /\ events'[1].type = "focus"
       /\ events'[1].position = 0]_vars

C36Step ==
  /\ (storage # NoSave /\ storage' = NoSave) =>
        (status = IDLE /\ status' = RECORDING /\ events' = <<>>)
  /\ (status = FINISHED /\ status' = IDLE) => storage' = storage

\* C36: the stored snapshot is removed only by startSession: pauseSession,
\* resumeSession, restoreSession and stopSession never delete it, and after
\* a session is finished the snapshot stopSession wrote, which holds the
\* session's text and log, remains in storage until startSession is called.
C36SnapshotKeptUntilStart ==
  /\ [](status = FINISHED =>
          /\ storage # NoSave
          /\ storage.text = completedSession.finalText
          /\ storage.events = completedSession.events)
  /\ [][C36Step]_vars

\* a restored session was resumed and finished: its snapshot is in storage
C36Witness ==
  /\ status = FINISHED
  /\ restored
  /\ storage # NoSave
  /\ Len(storage.events) >= 1
  /\ storage.timestamp = now
  /\ now > Epoch

(***************************************************************************)
(* The autosave interval in time: the effect on [status, saveToStorage]    *)
(* clears the interval and arms a new one whenever the status or the text  *)
(* (a dependency of saveToStorage) has changed                             *)
(***************************************************************************)
AutosaveInterval == 2000
Quantum     == 1000  \* the clock of this specification advances by Quantum ms
TimedSteps  == 5     \* and runs from Epoch to Epoch + TimedSteps * Quantum
TypedEvents == 4     \* longest log typed while the interval is followed

TimedInit ==
  /\ HookFresh(status, text, events, startTime, lastEventTime)
  /\ storage = NoSave
  /\ now = Epoch
  /\ completedSession = NoSession
  /\ resumedAt = -1
  /\ restored = FALSE
  /\ steps = <<>>
  /\ returnedSessions = <<>>
  /\ autosaveTimer = NoInterval
  /\ PlayerIdle /\ SegIdle /\ AppIdle

TimedFrame ==
  /\ UNCHANGED <<completedSession, restored, steps, returnedSessions>>
  /\ UNCHANGED <<playerVars, segVars, appVars>>

IntervalDue ==
  autosaveTimer >= 0 /\ now >= autosaveTimer + AutosaveInterval

\* startSession; the render with status RECORDING arms the interval
timedStartSession ==
  /\ status = IDLE
  /\ storage' = NoSave
  /\ text' = <<>>
  /\ startTime' = now
  /\ status' = RECORDING
  /\ LET r == logEvent(status, <<>>, now, now, -1,
                       [type |-> "focus", position |-> 0, content |-> <<>>,
                        actionDetails |-> ""], now)
     IN  /\ events' = r.events
         /\ lastEventTime' = r.lastEventTime
         /\ resumedAt' = r.resumedAt
  /\ autosaveTimer' = now
  /\ UNCHANGED now
  /\ TimedFrame

\* handleChange while RECORDING: setText gives a new saveToStorage, so the
\* effect's clean-up clears the interval and the effect arms a new one
timedChange ==
  /\ status = RECORDING
  /\ \E newText \in TextsUpTo(MaxLen) :
        handleChangeCore(newText, 0, TypedEvents)
  /\ autosaveTimer' = IF text' # text THEN now ELSE autosaveTimer
  /\ UNCHANGED <<status, startTime, storage>>
  /\ TimedFrame

\* the interval's callback: saveToStorage of the render that armed it
intervalFires ==
  /\ status = RECORDING
  /\ IntervalDue
  /\ storage' = saveToStorage(status, text, storage)
  /\ autosaveTimer' = now
  /\ UNCHANGED <<status, text, events, startTime, lastEventTime, now,
                 resumedAt>>
  /\ TimedFrame

\* Quantum ms pass; a due callback runs before later time is seen
elapse ==
  /\ ~IntervalDue
  /\ now + Quantum <= Epoch + TimedSteps * Quantum
  /\ now' = now + Quantum
  /\ UNCHANGED <<status, text, events, startTime, lastEventTime, storage,
                 resumedAt, autosaveTimer>>
  /\ TimedFrame

TimedNext == timedStartSession \/ timedChange \/ intervalFires \/ elapse

SpecTimed == TimedInit /\ [][TimedNext]_vars

\* C37: while the recorder stays in RECORDING a snapshot is written at least
\* once in every 2-second interval, whatever the rate at which the writer is
\* typing: once the session has been recording for 2 seconds (and one clock
\* step for the callback to run), the storage holds a snapshot written less
\* than 2 seconds (and one clock step) ago.
C37AutosaveEvery2s ==
  (status = RECORDING /\ now - startTime >= AutosaveInterval + Quantum) =>
     /\ storage # NoSave
     /\ now - storage.timestamp < AutosaveInterval + Quantum

\* every event of the session lies within its totalActiveTime, and the
\* replay at totalActiveTime folds all its text events
WithinActiveTime(session) ==
  /\ session.totalActiveTime = session.endTime - session.startTime
  /\ \A i \in 1..Len(session.events) :
       session.events[i].relativeTime <= session.totalActiveTime
  /\ reconstructTextAtTime(session.events, session.totalActiveTime)
       = FoldText(relevantEvents(session.events), 1, <<>>)

\* C38: for every session returned by stopSession, every event's
\* relativeTime is <= totalActiveTime (= endTime - startTime), so replaying
\* at t = totalActiveTime, the time at which playback stops, applies every
\* text event of the log.
C38EventsWithinActiveTime ==
  /\ completedSession # NoSession => WithinActiveTime(completedSession)
  /\ \A i \in 1..Len(returnedSessions) :
       WithinActiveTime(returnedSessions[i].session)

\* a restored session was finished in the millisecond of its last event
C38Witness ==
  /\ completedSession # NoSession
  /\ restored
  /\ Len(completedSession.events) = 2
  /\ completedSession.totalActiveTime > 0
  /\ completedSession.events[2].relativeTime = completedSession.totalActiveTime
  /\ completedSession.events[2].type \in TextTypes

\* a result is stored: processData gets a value other than its initial one
Delivered == processData' # processData /\ processData' # NoRun

C39Step ==
  /\ Delivered =>
       /\ timerPending /\ ~timerPending'
       /\ currentView = "analyze" /\ completedSession' = completedSession
       /\ processData = NoRun
       /\ processData' = metricsOf(completedSession)
  /\ (calculating /\ ~calculating') => (timerPending /\ ~timerPending')
  /\ (timerPending /\ (currentView' # "analyze"
                       \/ completedSession' # completedSession)) =>
       /\ processData' = NoRun
       /\ (timerPending' => currentView' = "analyze")
  /\ (~timerPending /\ timerPending') =>
       (currentView = "write" /\ currentView' = "analyze")

\* C39: the metrics of the session shown are computed by a timer armed when
\* the dashboard is given the session, and stored at most once per timer:
\* a timer is pending only while that dashboard is mounted and has no result
\* yet, a result is stored only by a pending timer and is the result for
\* the session shown, and when the dashboard is closed or the session
\* replaced before the timer ran, the timer is cleared and nothing is stored
\* for the superseded session.
C39DeferredOnce ==
  /\ [](timerPending =>
          /\ currentView = "analyze" /\ appMounted
          /\ calculating /\ processData = NoRun)
  /\ [](processData # NoRun =>
          /\ currentView = "analyze"
          /\ processData = metricsOf(completedSession))
  /\ [][C39Step]_vars

\* the dashboard of a loaded session has been closed with the Write button:
\* no timer is pending and no result is stored
C39Witness ==
  /\ currentView = "write" /\ appMounted
  /\ appOp = [op |-> "write"]
  /\ completedSession # NoSession
  /\ completedSession.events = JArray(<<JEvent(1)>>)
  /\ ~timerPending /\ calculating
  /\ processData = NoRun

(***************************************************************************)
(* JavaScript numbers: the non-negative IEEE 754 doubles the dashboard's   *)
(* net-character series computes with.  A double other than 0 is its       *)
(* Precision significant bits, the first of them 1, and the exponent of    *)
(* the first bit: bits[k] weighs 2^(exp - (k - 1)).  Long division and     *)
(* multiplication go through the bits in digits of DigitBits bits.         *)
(***************************************************************************)
Precision == 53     \* significant bits of a double
DigitBits == 8
DigitBase == 2 ^ DigitBits

\* the binary digits of an integer 0 <= n < 2^30, the highest first
BitsOf(n) ==
  LET len == CHOOSE l \in 0..30 : n < 2 ^ l /\ (l = 0 \/ 2 ^ (l - 1) <= n)
  IN  [k \in 1..len |-> (n \div 2 ^ (len - k)) % 2]

\* the integer of at most 30 binary digits
RECURSIVE ValueOf(_)
ValueOf(bits) ==
  IF bits = <<>> THEN 0
  ELSE IF Len(bits) = 1 THEN bits[1]
  ELSE LET half == Len(bits) \div 2
       IN  ValueOf(SubSeq(bits, 1, half)) * 2 ^ (Len(bits) - half)
             + ValueOf(SubSeq(bits, half + 1, Len(bits)))

\* `count` zeros
Zeros(count) == [k \in 1..count |-> 0]

\* the DigitBits binary digits of a digit
DigitToBits(digit) == Zeros(DigitBits - Len(BitsOf(digit))) \o BitsOf(digit)

\* the c-th digit of a sequence of binary digits whose length is a multiple
\* of DigitBits
DigitAt(bits, c) ==
  ValueOf(SubSeq(bits, DigitBits * (c - 1) + 1, DigitBits * c))

\* the binary digits of a sequence of digits
RECURSIVE DigitsToBits(_)
DigitsToBits(digits) ==
  IF digits = <<>> THEN <<>>
  ELSE DigitToBits(Head(digits)) \o DigitsToBits(Tail(digits))

\* a sequence of binary digits, not all 0, from its first 1 on
Significant(bits) ==
  LET first == CHOOSE j \in 1..Len(bits) :
                 bits[j] = 1 /\ \A h \in 1..(j - 1) : bits[h] = 0
  IN  SubSeq(bits, first, Len(bits))

DoubleZero == [zero |-> TRUE]

\* the double of an integer 0 <= n < 2^30, which is exact
ToDouble(n) ==
  IF n = 0 THEN DoubleZero
  ELSE [bits |-> BitsOf(n) \o Zeros(Precision - Len(BitsOf(n))),
        exp  |-> Len(BitsOf(n)) - 1]

\* Precision binary digits, not all 1, plus one in the last place
Increment(bits) ==
  LET last0 == CHOOSE z \in 1..Precision :
                 bits[z] = 0 /\ \A k \in (z + 1)..Precision : bits[k] = 1
  IN  [k \in 1..Precision |->
         IF k < last0 THEN bits[k] ELSE IF k = last0 THEN 1 ELSE 0]

\* round to nearest, ties to even: `digits` are significant bits from the
\* first 1 on, at least Precision of them, `sticky` tells that the exact
\* value has more behind them
RoundToDouble(digits, sticky, exp) ==
  LET kept   == SubSeq(digits, 1, Precision)
      guard  == IF Len(digits) > Precision THEN digits[Precision + 1] ELSE 0
      behind == sticky \/ \E k \in (Precision + 2)..Len(digits) : digits[k] = 1
      up     == guard = 1 /\ (behind \/ kept[Precision] = 1)
  IN  IF ~up THEN [bits |-> kept, exp |-> exp]
      ELSE IF \A k \in 1..Precision : kept[k] = 1
        THEN [bits |-> <<1>> \o Zeros(Precision - 1), exp |-> exp + 1]
      ELSE [bits |-> Increment(kept), exp |-> exp]

\* x / k for a double x and an integer 0 < k < 2^10: long division of the
\* significant bits, continued with zeros until Precision + 1 bits of the
\* quotient and the remainder behind them are known
Divide(x, k) ==
  IF x = DoubleZero THEN DoubleZero
  ELSE
    LET count    == 9
        dividend == x.bits \o Zeros(count * DigitBits - Precision)
        R[c \in 0..count] ==
          IF c = 0 THEN 0
          ELSE (R[c - 1] * DigitBase + DigitAt(dividend, c)) % k
        Q == [c \in 1..count |->
                (R[c - 1] * DigitBase + DigitAt(dividend, c)) \div k]
        quotient == DigitsToBits(Q)
    IN  RoundToDouble(Significant(quotient), R[count] # 0,
                      x.exp - (Len(quotient) - Len(Significant(quotient))))

\* i * x for an integer 0 <= i < 2^10 and a double x: the product of the
\* significant bits from the last digit to the first, the last carry in front
Multiply(i, x) ==
  IF i = 0 \/ x = DoubleZero THEN DoubleZero
  ELSE
    LET count  == 7
        factor == Zeros(count * DigitBits - Precision) \o x.bits
        C[c \in 1..(count + 1)] ==
          IF c = count + 1 THEN 0
          ELSE (i * DigitAt(factor, c) + C[c + 1]) \div DigitBase
        P == [c \in 1..count |->
                (i * DigitAt(factor, c) + C[c + 1]) % DigitBase]
        product == Significant(BitsOf(C[1]) \o DigitsToBits(P))
    IN  RoundToDouble(product, FALSE, x.exp + (Len(product) - Precision))

\* Math.floor of a double below 2^30
Floor(x) ==
  IF x = DoubleZero \/ x.exp < 0 THEN 0
  ELSE ValueOf(SubSeq(x.bits, 1, x.exp + 1))

\* Math.round of a double below 2^30 - 1: the nearest integer, a half upwards
MathRound(x) ==
  IF x = DoubleZero \/ x.exp < -1 THEN 0
  ELSE Floor(x) + x.bits[x.exp + 2]

\* n > x for an integer n and a double x >= 0
GreaterThan(n, x) == n > Floor(x)

(***************************************************************************)
(* The dashboard's net-character series (timeData), over sessions of       *)
(* several durations and short logs                                        *)
(***************************************************************************)
DurationStep == 29   \* the sessions last 0, DurationStep and 2 * DurationStep ms
SeriesLen    == 2    \* longest log of any events given to the series

bucketCount == 50
SampleLimit == 10000 \* a log longer than this is sampled

SeriesTypes == {"insert", "paste", "delete", "keydown"}

SeriesEvent(type, relativeTime) ==
  [t |-> "event", type |-> type, relativeTime |-> relativeTime]

\* the start, the middle and the end of a session of duration d
SeriesTimes(d) == {0, d \div 2, d}

\* every log of at most SeriesLen events at those times, in time order
SortedLogs(d) ==
  UNION { { [j \in 1..k |-> SeriesEvent(types[j], times[j])] :
              types \in [1..k -> SeriesTypes],
              times \in {ts \in [1..k -> SeriesTimes(d)] :
                           \A j \in 1..(k - 1) : ts[j] <= ts[j + 1]} } :
          k \in 0..SeriesLen }

\* text pasted as the session starts, then Backspace twice
PasteThenBackspaces(d) ==
  UNION { { <<SeriesEvent("paste", 0), SeriesEvent("delete", t),
               SeriesEvent("delete", u)>> :
               u \in {v \in SeriesTimes(d) : v >= t} } :
          t \in SeriesTimes(d) }

\* a hand-edited log that is not in time order
UnsortedLogs(d) ==
  { <<SeriesEvent("insert", d), SeriesEvent("insert", 0)>>,
    <<SeriesEvent("delete", d), SeriesEvent("insert", 0),
      SeriesEvent("insert", d)>> }

SeriesSessions ==
  UNION { { [JObject(JString("s1"), JArray(evs), JString(<<"a">>))
               EXCEPT !.endTime = d] :
              evs \in SortedLogs(d) \cup PasteThenBackspaces(d)
                        \cup UnsortedLogs(d) } :
          d \in {0, DurationStep, 2 * DurationStep} }

\* session.endTime - session.startTime
durationOf(session) == session.endTime - session.startTime

\* e.type, undefined on an element that has none
TypeOf(e) == IF "type" \in DOMAIN e THEN e.type ELSE "undefined"

\* a sampling stride of 5 on a log of more than 10000 events
sampleRate(session) ==
  IF Len(session.events.v) > SampleLimit THEN 5 ELSE 1

\* the inner loop from index j (counted from 1) on: it stops at the first
\* event it visits that is later than the threshold
RECURSIVE netCharsFrom(_, _, _, _)
netCharsFrom(evs, j, rate, timeThreshold) ==
  IF j > Len(evs) THEN 0
  ELSE IF GreaterThan(evs[j].relativeTime, timeThreshold) THEN 0
  ELSE (IF TypeOf(evs[j]) \in {"insert", "paste"} THEN 1
        ELSE IF TypeOf(evs[j]) = "delete" THEN -1 ELSE 0)
       + netCharsFrom(evs, j + rate, rate, timeThreshold)

\* the timeData memo once calculating is false, were chars not kept from
\* falling below 0
timeDataUnclamped(session) ==
  LET bucketSize == Divide(ToDouble(durationOf(session)), bucketCount)
  IN  [n \in 1..(bucketCount + 1) |->
         LET timeThreshold == Multiply(n - 1, bucketSize)
         IN  [time  |-> MathRound(Divide(timeThreshold, 1000)),
              chars |-> netCharsFrom(session.events.v, 1,
                                     sampleRate(session), timeThreshold)]]

\* the timeData memo once calculating is false, of a session that does not
\* end before it starts: bucket i is element i + 1
timeDataOf(session) ==
  LET bucketSize == Divide(ToDouble(durationOf(session)), bucketCount)
  IN  [n \in 1..(bucketCount + 1) |->
         LET timeThreshold == Multiply(n - 1, bucketSize)
         IN  [time  |-> MathRound(Divide(timeThreshold, 1000)),
              chars |-> Max(0, netCharsFrom(session.events.v, 1,
                                            sampleRate(session),
                                            timeThreshold))]]

\* one of the sessions has been uploaded to the page just opened: the
\* dashboard is mounted on it and is calculating, the timer of its effect is
\* pending and timeData is []
SeriesInit ==
  /\ HookFresh(status, text, events, startTime, lastEventTime)
  /\ storage = NoSave /\ now = Epoch
  /\ resumedAt = -1 /\ restored = FALSE /\ steps = <<>>
  /\ returnedSessions = <<>>
  /\ autosaveTimer = NotTimed
  /\ PlayerIdle /\ SegIdle
  /\ completedSession \in SeriesSessions
  /\ currentView = "analyze" /\ appMounted = TRUE /\ hasError = FALSE
  /\ calculating = TRUE /\ timerPending = TRUE /\ processData = NoRun
  /\ stats = StatsCalculating /\ timeData = <<>>
  /\ exported = NoExport /\ appOp = [op |-> "analyze"]

\* the effect's timer fires and the dashboard renders with the memos
seriesTimerFire ==
  /\ appMounted /\ currentView = "analyze" /\ timerPending
  /\ timerPending' = FALSE
  /\ calculating' = FALSE
  /\ processData' = IF calculateMetricsThrows(completedSession)
                      THEN processData ELSE metricsOf(completedSession)
  /\ IF renderThrows(completedSession)
       THEN /\ appMounted' = renderErrorCaught.appMounted
            /\ hasError' = renderErrorCaught.hasError
            /\ UNCHANGED <<stats, timeData>>
       ELSE /\ UNCHANGED <<appMounted, hasError>>
            /\ stats' = statsOf(completedSession)
            /\ timeData' = timeDataOf(completedSession)
  /\ appOp' = [op |-> "timer"]
  /\ UNCHANGED <<currentView, exported>>
  /\ AppFrame

\* the Write button or onBack: the dashboard and its memos are gone
seriesWrite ==
  /\ appMounted /\ currentView = "analyze"
  /\ currentView' = "write"
  /\ hasError' = FALSE /\ calculating' = TRUE /\ timerPending' = FALSE
  /\ processData' = NoRun /\ stats' = NoRun /\ timeData' = NoRun
  /\ appOp' = [op |-> "write"]
  /\ UNCHANGED <<appMounted, exported>>
  /\ AppFrame

\* the Analyze button: a new dashboard on the same session
seriesAnalyze ==
  /\ appMounted /\ currentView = "write" /\ completedSession # NoSession
  /\ currentView' = "analyze"
  /\ hasError' = FALSE /\ calculating' = TRUE /\ timerPending' = TRUE
  /\ processData' = NoRun /\ stats' = StatsCalculating /\ timeData' = <<>>
  /\ appOp' = [op |-> "analyze"]
  /\ UNCHANGED <<appMounted, exported>>
  /\ AppFrame

SeriesNext == seriesTimerFire \/ seriesWrite \/ seriesAnalyze

SpecSeries == SeriesInit /\ [][SeriesNext]_vars

\* the series is on the screen
SeriesShown ==
  currentView = "analyze" /\ appMounted /\ ~hasError /\ ~calculating

\* the session of the series satisfies the claim's precondition
SeriesInput ==
  /\ TimeSorted(completedSession.events.v)
  /\ Len(completedSession.events.v) <= SampleLimit

\* inserts and pastes minus deletes among the events of `evs` in `counted`
NetAmong(evs, counted) ==
  Cardinality({j \in counted : evs[j].type \in {"insert", "paste"}})
    - Cardinality({j \in counted : evs[j].type = "delete"})

\* the events whose relativeTime is <= i x duration / 50
UpToBoundary(session, i) ==
  {j \in 1..Len(session.events.v) :
     session.events.v[j].relativeTime * bucketCount
       <= i * durationOf(session)}

\* the boundary i x duration / 50 is a whole number of milliseconds and the
\* double i * (duration / 50) is below it
BoundaryRoundsBelow(session, i) ==
  /\ (i * durationOf(session)) % bucketCount = 0
  /\ Floor(Multiply(i, Divide(ToDouble(durationOf(session)), bucketCount)))
       < (i * durationOf(session)) \div bucketCount

\* the events before the boundary, and those on it unless the double is
\* below it
UpToThreshold(session, i) ==
  {j \in UpToBoundary(session, i) :
     \/ session.events.v[j].relativeTime * bucketCount
          < i * durationOf(session)
     \/ ~BoundaryRoundsBelow(session, i)}

\* C40 as stated: for a time-sorted log of at most 10000 events the series
\* has one point per bucket boundary i = 0..50, and point i is the number of
\* insert/paste events minus the number of delete events whose relativeTime
\* is <= i x duration / 50.
C40NetCharacterSeries ==
  (SeriesShown /\ SeriesInput) =>
    /\ Len(timeData) = bucketCount + 1
    /\ \A i \in 0..bucketCount :
         timeData[i + 1].chars
           = NetAmong(completedSession.events.v,
                      UpToBoundary(completedSession, i))

\* C40 amended: for such a log the series has one point per bucket boundary
\* i = 0..50, and point i is the larger of 0 and the number of insert/paste
\* events minus the number of delete events whose relativeTime is
\* <= i x duration / 50, an event exactly on the boundary being left out
\* where the double i * (duration / 50) is below the boundary.
C40NetCharacterSeriesClamped ==
  (SeriesShown /\ SeriesInput) =>
    /\ Len(timeData) = bucketCount + 1
    /\ \A i \in 0..bucketCount :
         timeData[i + 1].chars
           = Max(0, NetAmong(completedSession.events.v,
                             UpToThreshold(completedSession, i)))

\* the series of a session of 58 ms is shown: text pasted at the start and
\* two Backspaces at 29 ms, which the point at 25 x 58 / 50 = 29 leaves out
\* (chars 1) and the later points do not count below 0
C40Witness ==
  /\ SeriesShown /\ SeriesInput
  /\ durationOf(completedSession) = 2 * DurationStep
  /\ completedSession.events.v
       = <<SeriesEvent("paste", 0), SeriesEvent("delete", DurationStep),
           SeriesEvent("delete", DurationStep)>>
  /\ BoundaryRoundsBelow(completedSession, 25)
  /\ timeData[26].chars = 1
  /\ NetAmong(completedSession.events.v, UpToBoundary(completedSession, 25))
       = -1
  /\ timeData[bucketCount + 1].chars = 0

====
